---- MODULE Spec2Model ----
(***************************************************************************)
(* LoveAR server: the in-memory repository (MemStorage) and the request    *)
(* handlers of registerRoutes that work on it (server/storage.ts), the     *)
(* ContentModerator (phone-number detection, moderateContent, detectSpam)  *)
(* and the call state machine of the client's WebRTCManager.               *)
(*                                                                         *)
(* Every Map of MemStorage is a function from ids to records, next to the  *)
(* counter that hands out its ids.  A Map iterates in insertion order,     *)
(* which is id order here (ids only grow and set() on a present key keeps  *)
(* its place), so Array.from(map.values()).find(p) is the record with the  *)
(* least id satisfying p.                                                  *)
(*                                                                         *)
(* One action per request handler, run to completion.  res is the HTTP     *)
(* response of the request handled last, with the request fields the       *)
(* properties refer to.  Where requests run side by side (SpecSwipeRace,   *)
(* SpecBlindDateRace) a handler is one action per stretch of code between  *)
(* two awaits, its local variables held in requests; the asynchronous      *)
(* methods of WebRTCManager are followed the same way in invocations.      *)
(***************************************************************************)
EXTENDS Integers, Sequences, FiniteSets, TLC

VARIABLES
  users, currentUserId,
  profiles, currentProfileId,
  swipes, currentSwipeId,
  matches, currentMatchId,
  messages, currentMessageId,
  blindDates, currentBlindDateId,
  payments, currentPaymentId,
  violations, currentViolationId,
  arStories, currentArStoryId,
  created,                     \* history: per entity type, the ids the repository's
                               \* create methods handed out when called directly,
                               \* in the order of the calls
  timers,                      \* pending setTimeout callbacks: payment id -> due time
  now, ticks,                  \* Date.now() in ms, and the number of clock steps taken
  phoneNumberRegexLastIndex,   \* phoneNumberRegex.lastIndex (the regex is /g)
  phoneWordRegexLastIndex,     \* phoneWordRegex.lastIndex (the regex is /gi)
  requests,                    \* the requests whose handler is followed await by
                               \* await: request number -> its position in the
                               \* handler and the handler's local variables
  manager,                     \* the fields of the WebRTCManager
  invocations,                 \* its asynchronous methods in flight: number ->
                               \* the method and the await it is suspended at
  res

vars == <<users, currentUserId, swipes, currentSwipeId, matches, currentMatchId,
          messages, currentMessageId, blindDates, currentBlindDateId,
          payments, currentPaymentId, violations, currentViolationId,
          timers, now, ticks, phoneNumberRegexLastIndex, phoneWordRegexLastIndex, res,
          profiles, currentProfileId, arStories, currentArStoryId, created,
          requests, manager, invocations>>

userVars == <<users, currentUserId>>
swipeVars == <<swipes, currentSwipeId, matches, currentMatchId>>
messageVars == <<messages, currentMessageId, violations, currentViolationId,
                 phoneNumberRegexLastIndex, phoneWordRegexLastIndex>>
blindDateVars == <<blindDates, currentBlindDateId>>
paymentVars == <<payments, currentPaymentId, timers>>
clockVars == <<now, ticks>>
profileVars == <<profiles, currentProfileId>>
arStoryVars == <<arStories, currentArStoryId>>
managerVars == <<manager, invocations>>
\* what no request handler run to completion writes
offRouteVars == <<profileVars, arStoryVars, created, requests, managerVars>>

(***************************************************************************)
(* Bounds of the model.                                                    *)
(***************************************************************************)
MaxUserId == 2        \* user ids that requests name: 1..MaxUserId
MaxSwipes == 2        \* swipes stored
MaxUsers == 2         \* users stored
MaxBlindDates == 1    \* blind dates stored
MaxPayments == 2      \* payments created
MaxMessages == 1      \* messages stored
MaxViolations == 1    \* violations stored
MaxTicks == 1         \* clock steps
MaxBalance == 2       \* wallet balances stay within -MaxBalance..MaxBalance
MaxProfiles == 2      \* profiles created
MaxMatches == 1       \* matches created by direct calls of the repository
MaxArStories == 1     \* AR stories created
MaxRegistered == 101  \* users stored where discovery is followed
MaxWords == 8         \* words of a text given to the content moderator

UserIds == 1..MaxUserId

\* the entity types of the repository, one Map and one counter each
EntityTypes == {"user", "profile", "match", "swipe", "message", "blindDate",
                "arStory", "payment", "violation"}

\* null, for a nullable id or timestamp (ids start at 1, times at 0)
Null == -1

\* the WebRTCManager after construction
NewManager ==
  [peerConnection |-> Null, localStream |-> Null, remoteStream |-> Null,
   isInitiator |-> FALSE, callState |-> "idle", matchId |-> Null]

Min(S) == CHOOSE x \in S : \A y \in S : x <= y

\* Map.set(id, record) on a Map held as a function
MapSet(map, id, record) ==
  [k \in (DOMAIN map) \cup {id} |-> IF k = id THEN record ELSE map[k]]

\* { ...entity, ...updates }
Merge(entity, updates) ==
  [f \in (DOMAIN entity) \cup (DOMAIN updates) |->
     IF f \in DOMAIN updates THEN updates[f] ELSE entity[f]]

\* Array.from(map.values()).find(test), ids being the keys whose record passes
\* the test: the first of them, as a set of at most one record ({} for
\* undefined)
Find(map, ids) == IF ids = {} THEN {} ELSE {map[Min(ids)]}

(***************************************************************************)
(* Swipes and matches                                                      *)
(***************************************************************************)
SwipeActions == {"like", "pass", "super_like"}

\* mutant of getSwipe: the pair is looked up in the reverse direction
getSwipe_Reversed(swipeMap, swiperId, swipedId) ==
  Find(swipeMap, {k \in DOMAIN swipeMap :
                    swipeMap[k].swiperId = swipedId /\ swipeMap[k].swipedId = swiperId})

getSwipe(swipeMap, swiperId, swipedId) ==
  Find(swipeMap, {k \in DOMAIN swipeMap :
                    swipeMap[k].swiperId = swiperId /\ swipeMap[k].swipedId = swipedId})

\* the Map after createSwipe (the id comes from currentSwipeId)
createSwipe(swipeMap, id, insertSwipe) ==
  MapSet(swipeMap, id,
         [id |-> id, swiperId |-> insertSwipe.swiperId,
          swipedId |-> insertSwipe.swipedId, action |-> insertSwipe.action])

createMatch(matchMap, id, insertMatch) ==
  MapSet(matchMap, id,
         [id |-> id, user1Id |-> insertMatch.user1Id,
          user2Id |-> insertMatch.user2Id, isActive |-> TRUE])

\* mutant of IsReciprocalLike: the reciprocal swipe's action is not looked at
IsReciprocalLike_AnyAction(swipeMap, swipeData) ==
  /\ swipeData.action = "like"
  /\ getSwipe(swipeMap, swipeData.swipedId, swipeData.swiperId) # {}

\* mutant of IsReciprocalLike: the lookup names the pair in the request's own
\* direction
IsReciprocalLike_SameDirection(swipeMap, swipeData) ==
  /\ swipeData.action = "like"
  /\ \E reciprocalSwipe \in getSwipe(swipeMap, swipeData.swiperId, swipeData.swipedId) :
        reciprocalSwipe.action = "like"

\* the reciprocal check of POST /api/swipe, on the Map that holds the new swipe
IsReciprocalLike(swipeMap, swipeData) ==
  /\ swipeData.action = "like"
  /\ \E reciprocalSwipe \in getSwipe(swipeMap, swipeData.swipedId, swipeData.swiperId) :
        reciprocalSwipe.action = "like"

SwipeRes(status, swipeData) ==
  [op |-> "swipe", status |-> status, swiperId |-> swipeData.swiperId,
   swipedId |-> swipeData.swipedId, action |-> swipeData.action]

PostSwipe(swipeData) ==
  IF getSwipe(swipes, swipeData.swiperId, swipeData.swipedId) # {}
  THEN /\ res' = SwipeRes(400, swipeData)
       /\ UNCHANGED swipeVars
  ELSE /\ currentSwipeId <= MaxSwipes
       /\ swipes' = createSwipe(swipes, currentSwipeId, swipeData)
       /\ currentSwipeId' = currentSwipeId + 1
       /\ IF IsReciprocalLike(swipes', swipeData)
          THEN /\ matches' = createMatch(matches, currentMatchId,
                                [user1Id |-> swipeData.swiperId,
                                 user2Id |-> swipeData.swipedId])
               /\ currentMatchId' = currentMatchId + 1
          ELSE UNCHANGED <<matches, currentMatchId>>
       /\ res' = SwipeRes(200, swipeData)

SwipeRequest ==
  /\ \E swiperId \in UserIds, swipedId \in UserIds, action \in SwipeActions :
        PostSwipe([swiperId |-> swiperId, swipedId |-> swipedId, action |-> action])
  /\ UNCHANGED <<userVars, messageVars, blindDateVars, paymentVars, clockVars,
               offRouteVars>>

(***************************************************************************)
(* Numbers.  A JavaScript number is a record: NaN, or a whole number.  The  *)
(* amounts of a request are decimal strings (drizzle's decimal columns are *)
(* z.string() in the insert schemas, so any string passes validation);     *)
(* ParseFloat gives the number parseFloat reads from each.  walletBalance  *)
(* holds the number its stored string denotes: Number.toString and         *)
(* parseFloat are inverse on every number the handlers compute.            *)
(***************************************************************************)
NaN == [nan |-> TRUE, v |-> 0]
Num(n) == [nan |-> FALSE, v |-> n]

AmountStrings == {"1.00", "-1.00", "abc"}
\* the amounts of well-formed requests
PositiveAmountStrings == {"1.00", "2.00"}

ParseFloat(str) ==
  CASE str = "0.00" -> Num(0)
    [] str = "1.00" -> Num(1)
    [] str = "2.00" -> Num(2)
    [] str = "-1.00" -> Num(-1)
    [] OTHER -> NaN

\* a < b on numbers: false when either is NaN
Lt(a, b) == ~a.nan /\ ~b.nan /\ a.v < b.v
\* a >= b on numbers: false when either is NaN
Ge(a, b) == ~a.nan /\ ~b.nan /\ a.v >= b.v
Sub(a, b) == IF a.nan \/ b.nan THEN NaN ELSE Num(a.v - b.v)
Add(a, b) == IF a.nan \/ b.nan THEN NaN ELSE Num(a.v + b.v)

\* the bound on the balances the model follows
InBalanceBound(a) == a.nan \/ (a.v >= -MaxBalance /\ a.v <= MaxBalance)

(***************************************************************************)
(* Users                                                                   *)
(***************************************************************************)
Emails == {"a@lovear.app", "b@lovear.app"}
Usernames == {"ann", "bob"}

getUser(userMap, id) == IF id \in DOMAIN userMap THEN {userMap[id]} ELSE {}

\* mutant of getUserByEmail: the lookup compares the username
getUserByEmail_ByUsername(userMap, email) ==
  Find(userMap, {k \in DOMAIN userMap : userMap[k].username = email})

getUserByEmail(userMap, email) ==
  Find(userMap, {k \in DOMAIN userMap : userMap[k].email = email})

\* { ...insertUser, id, isPremium, walletBalance, suspendedUntil }: the fields
\* of the request body, under the ones the repository sets
createUser(userMap, id, insertUser) ==
  MapSet(userMap, id,
         Merge(insertUser,
               [id |-> id, isPremium |-> FALSE, walletBalance |-> ParseFloat("0.00"),
                suspendedUntil |-> Null]))

\* updateUser(id, {walletBalance}) and the like: one field merged over the
\* stored user; an unknown id changes nothing
updateUser(userMap, id, field, value) ==
  IF id \notin DOMAIN userMap THEN userMap
  ELSE [userMap EXCEPT ![id] = [f \in DOMAIN @ |-> IF f = field THEN value ELSE @[f]]]

\* POST /api/register, the model following at most maxUsers stored users
PostRegisterWithin(userData, maxUsers) ==
  IF getUserByEmail(users, userData.email) # {}
  THEN /\ res' = [op |-> "register", status |-> 400, email |-> userData.email]
       /\ UNCHANGED userVars
  ELSE /\ currentUserId <= maxUsers
       /\ users' = createUser(users, currentUserId, userData)
       /\ currentUserId' = currentUserId + 1
       /\ res' = [op |-> "register", status |-> 200, email |-> userData.email]

PostRegister(userData) == PostRegisterWithin(userData, MaxUsers)

(***************************************************************************)
(* The clock                                                               *)
(***************************************************************************)
PaymentDelayMs == 2000
DayMs == 86400000

Tick(d) ==
  /\ ticks < MaxTicks
  /\ now' = now + d
  /\ ticks' = ticks + 1
  /\ res' = [op |-> "tick", status |-> 0]

(***************************************************************************)
(* Payments and their settlement callback                                  *)
(***************************************************************************)
PaymentTypes == {"premium", "fine", "wallet_topup"}

createPayment(paymentMap, id, insertPayment) ==
  MapSet(paymentMap, id,
         [id |-> id, userId |-> insertPayment.userId, amount |-> insertPayment.amount,
          type |-> insertPayment.type, status |-> "pending"])

updatePayment(paymentMap, id, status) ==
  IF id \notin DOMAIN paymentMap THEN paymentMap
  ELSE [paymentMap EXCEPT ![id].status = status]

PostPayments(paymentData) ==
  /\ currentPaymentId <= MaxPayments
  /\ payments' = createPayment(payments, currentPaymentId, paymentData)
  /\ currentPaymentId' = currentPaymentId + 1
  /\ timers' = MapSet(timers, currentPaymentId, now + PaymentDelayMs)
  /\ res' = [op |-> "payment", status |-> 200, id |-> currentPaymentId]

\* mutant of SettleEffect: a fine is credited to the wallet like a top-up
SettleEffect_FineCredits(userMap, paymentData) ==
  IF getUser(userMap, paymentData.userId) = {} THEN userMap
  ELSE LET user == userMap[paymentData.userId]
       IN  IF paymentData.type = "premium"
           THEN updateUser(userMap, paymentData.userId, "isPremium", TRUE)
           ELSE updateUser(userMap, paymentData.userId, "walletBalance",
                           Add(user.walletBalance, ParseFloat(paymentData.amount)))

\* what the callback does to the users, for the payment data its closure holds
SettleEffect(userMap, paymentData) ==
  IF getUser(userMap, paymentData.userId) = {} THEN userMap
  ELSE LET user == userMap[paymentData.userId]
       IN  IF paymentData.type = "premium"
           THEN updateUser(userMap, paymentData.userId, "isPremium", TRUE)
           ELSE IF paymentData.type = "fine"
           THEN updateUser(userMap, paymentData.userId, "suspendedUntil", Null)
           ELSE updateUser(userMap, paymentData.userId, "walletBalance",
                           Add(user.walletBalance, ParseFloat(paymentData.amount)))

\* the setTimeout callback of payment id fires
Settle(id) ==
  /\ id \in DOMAIN timers
  /\ now >= timers[id]
  /\ timers' = [k \in (DOMAIN timers) \ {id} |-> timers[k]]
  /\ payments' = updatePayment(payments, id, "completed")
  /\ users' = SettleEffect(users, payments[id])
  /\ UNCHANGED <<currentPaymentId, currentUserId>>
  /\ res' = [op |-> "settle", status |-> 0, id |-> id]

(***************************************************************************)
(* Blind dates.  The request body of POST /api/blind-dates is the insert   *)
(* schema of the blind-date table (dinnerDates in shared/schema.ts): an    *)
(* integer user1Id and a decimal-string amount are what the handler reads. *)
(***************************************************************************)
getBlindDate(blindDateMap, id) ==
  IF id \in DOMAIN blindDateMap THEN {blindDateMap[id]} ELSE {}

\* { ...insertBlindDate, id, user2Id, status, scheduledFor }: the fields of the
\* request body, under the ones the repository sets
createBlindDate(blindDateMap, id, insertBlindDate) ==
  MapSet(blindDateMap, id,
         Merge(insertBlindDate,
               [id |-> id, user2Id |-> Null, status |-> "pending",
                scheduledFor |-> Null]))

\* mutant of matchBlindDate: the status is left as it was
matchBlindDate_StatusKept(blindDateMap, blindDateId, user2Id, time) ==
  IF blindDateId \notin DOMAIN blindDateMap THEN blindDateMap
  ELSE [blindDateMap EXCEPT ![blindDateId].user2Id = user2Id,
                            ![blindDateId].scheduledFor = time + DayMs]

\* updateBlindDate(blindDateId, {user2Id, status: "matched", scheduledFor})
matchBlindDate(blindDateMap, blindDateId, user2Id, time) ==
  IF blindDateId \notin DOMAIN blindDateMap THEN blindDateMap
  ELSE [blindDateMap EXCEPT ![blindDateId].user2Id = user2Id,
                            ![blindDateId].status = "matched",
                            ![blindDateId].scheduledFor = time + DayMs]

\* mutant of JoinDebitedUser: the blind date's requester pays for the join
JoinDebitedUser_Requester(userId, blindDate) == blindDate.user1Id

\* the user whose wallet POST /api/blind-dates/:id/join debits
JoinDebitedUser(userId, blindDate) == userId

BlindDateRes(op, status, userId, id) ==
  [op |-> op, status |-> status, userId |-> userId, id |-> id]

\* mutant of PostBlindDates: the blind date is stored before the balance check
PostBlindDates_StoredBeforeCheck(blindDateData) ==
  LET user == getUser(users, blindDateData.user1Id)
  IN  /\ currentBlindDateId <= MaxBlindDates
      /\ blindDates' = createBlindDate(blindDates, currentBlindDateId, blindDateData)
      /\ currentBlindDateId' = currentBlindDateId + 1
      /\ IF \/ user = {}
            \/ \E u \in user : Lt(u.walletBalance, ParseFloat(blindDateData.amount))
         THEN /\ res' = BlindDateRes("createBlindDate", 400, blindDateData.user1Id, Null)
              /\ UNCHANGED users
         ELSE /\ InBalanceBound(Sub(users[blindDateData.user1Id].walletBalance,
                                    ParseFloat(blindDateData.amount)))
              /\ users' = updateUser(users, blindDateData.user1Id, "walletBalance",
                             Sub(users[blindDateData.user1Id].walletBalance,
                                 ParseFloat(blindDateData.amount)))
              /\ res' = BlindDateRes("createBlindDate", 200, blindDateData.user1Id,
                                     currentBlindDateId)

\* POST /api/blind-dates, the model following at most maxBlindDates stored
\* blind dates
PostBlindDatesWithin(blindDateData, maxBlindDates) ==
  LET user == getUser(users, blindDateData.user1Id)
  IN  IF \/ user = {}
         \/ \E u \in user : Lt(u.walletBalance, ParseFloat(blindDateData.amount))
      THEN /\ res' = BlindDateRes("createBlindDate", 400, blindDateData.user1Id, Null)
           /\ UNCHANGED <<users, blindDateVars>>
      ELSE /\ currentBlindDateId <= maxBlindDates
           /\ InBalanceBound(Sub(users[blindDateData.user1Id].walletBalance,
                                 ParseFloat(blindDateData.amount)))
           /\ blindDates' = createBlindDate(blindDates, currentBlindDateId, blindDateData)
           /\ currentBlindDateId' = currentBlindDateId + 1
           /\ users' = updateUser(users, blindDateData.user1Id, "walletBalance",
                          Sub(users[blindDateData.user1Id].walletBalance,
                              ParseFloat(blindDateData.amount)))
           /\ res' = BlindDateRes("createBlindDate", 200, blindDateData.user1Id,
                                  currentBlindDateId)

PostBlindDates(blindDateData) == PostBlindDatesWithin(blindDateData, MaxBlindDates)

PostBlindDatesJoin(blindDateId, userId) ==
  LET user == getUser(users, userId)
      blindDate == getBlindDate(blindDates, blindDateId)
  IN  IF user = {} \/ blindDate = {}
      THEN /\ res' = BlindDateRes("join", 404, userId, blindDateId)
           /\ UNCHANGED <<users, blindDateVars>>
      ELSE IF Lt(users[userId].walletBalance, ParseFloat(blindDates[blindDateId].amount))
      THEN /\ res' = BlindDateRes("join", 400, userId, blindDateId)
           /\ UNCHANGED <<users, blindDateVars>>
      ELSE /\ InBalanceBound(Sub(users[userId].walletBalance,
                                 ParseFloat(blindDates[blindDateId].amount)))
           /\ blindDates' = matchBlindDate(blindDates, blindDateId, userId, now)
           /\ users' = updateUser(users, JoinDebitedUser(userId, blindDates[blindDateId]),
                          "walletBalance",
                          Sub(users[userId].walletBalance,
                              ParseFloat(blindDates[blindDateId].amount)))
           /\ UNCHANGED currentBlindDateId
           /\ res' = BlindDateRes("join", 200, userId, blindDateId)

(***************************************************************************)
(* Message texts and the phone-number check.  A text is a sequence of      *)
(* words joined by single spaces; offsets are character offsets.  Of the   *)
(* words used, "5551234567" is matched by phoneNumberRegex (and by it only *)
(* as a whole: fewer than ten digits are left from any offset inside it),  *)
(* "five" by phoneWordRegex, and "hi" by neither.  Both regexes carry the  *)
(* g flag, so test() searches from lastIndex, leaves lastIndex at the end  *)
(* of the match, and resets it to 0 when nothing matches.                  *)
(***************************************************************************)
Texts == {<<"hi">>, <<"five">>, <<"hi", "5551234567">>, <<"hi", "five">>}

WordLen(word) ==
  CASE word = "hi" -> 2
    [] word = "five" -> 4
    [] word = "5551234567" -> 10
    [] word = "Hi" -> 2
    [] word = "BUY" -> 3
    [] word = "NOW!!!" -> 6
    [] word = "sex" -> 3
    [] word = "viagra" -> 6
    [] word = "bitcoin" -> 7
    [] word = "constructor" -> 11

RECURSIVE WordEnd(_, _)
WordStart(text, i) == IF i = 1 THEN 0 ELSE WordEnd(text, i - 1) + 1
WordEnd(text, i) == WordStart(text, i) + WordLen(text[i])

\* regex.test(text) for the regex that matches exactly the word `hit`:
\* the result and the lastIndex it leaves
RegexTest(text, hit, lastIndex) ==
  LET found == {i \in 1..Len(text) : text[i] = hit /\ WordStart(text, i) >= lastIndex}
  IN  IF found = {} THEN [result |-> FALSE, lastIndex |-> 0]
      ELSE [result |-> TRUE, lastIndex |-> WordEnd(text, Min(found))]

\* containsPhoneNumber(text): the result and the lastIndex of both regexes
\* (|| does not evaluate phoneWordRegex.test when phoneNumberRegex.test is true)
containsPhoneNumber(text, numberLastIndex, wordLastIndex) ==
  LET byNumber == RegexTest(text, "5551234567", numberLastIndex)
      byWord == RegexTest(text, "five", wordLastIndex)
  IN  IF byNumber.result
      THEN [result |-> TRUE, numberLastIndex |-> byNumber.lastIndex,
            wordLastIndex |-> wordLastIndex]
      ELSE [result |-> byWord.result, numberLastIndex |-> byNumber.lastIndex,
            wordLastIndex |-> byWord.lastIndex]

(***************************************************************************)
(* Messages and violations                                                 *)
(***************************************************************************)
createMessage(messageMap, id, insertMessage) ==
  MapSet(messageMap, id,
         [id |-> id, matchId |-> insertMessage.matchId,
          senderId |-> insertMessage.senderId, content |-> insertMessage.content,
          isRead |-> FALSE])

\* mutant of createViolation: the violation is stored as already resolved
createViolation_Resolved(violationMap, id, insertViolation) ==
  MapSet(violationMap, id,
         [id |-> id, userId |-> insertViolation.userId, type |-> insertViolation.type,
          content |-> insertViolation.content,
          fineAmount |-> insertViolation.fineAmount, status |-> "resolved"])

createViolation(violationMap, id, insertViolation) ==
  MapSet(violationMap, id,
         [id |-> id, userId |-> insertViolation.userId, type |-> insertViolation.type,
          content |-> insertViolation.content,
          fineAmount |-> insertViolation.fineAmount, status |-> "pending"])

\* mutant of SuspendedUntil: the suspension runs from the epoch, not from now
SuspendedUntil_FromEpoch(time) == DayMs

\* new Date(Date.now() + 24 * 60 * 60 * 1000)
SuspendedUntil(time) == time + DayMs

MessageRes(status, messageData) ==
  [op |-> "message", status |-> status, senderId |-> messageData.senderId,
   content |-> messageData.content]

PostMessages(messageData) ==
  LET check == containsPhoneNumber(messageData.content, phoneNumberRegexLastIndex,
                                   phoneWordRegexLastIndex)
  IN  /\ phoneNumberRegexLastIndex' = check.numberLastIndex
      /\ phoneWordRegexLastIndex' = check.wordLastIndex
      /\ IF check.result
         THEN /\ currentViolationId <= MaxViolations
              /\ violations' = createViolation(violations, currentViolationId,
                                  [userId |-> messageData.senderId,
                                   type |-> "phone_number",
                                   content |-> messageData.content,
                                   fineAmount |-> "100.00"])
              /\ currentViolationId' = currentViolationId + 1
              /\ users' = updateUser(users, messageData.senderId, "suspendedUntil",
                                     SuspendedUntil(now))
              /\ UNCHANGED <<messages, currentMessageId>>
              /\ res' = MessageRes(403, messageData)
         ELSE /\ currentMessageId <= MaxMessages
              /\ messages' = createMessage(messages, currentMessageId, messageData)
              /\ currentMessageId' = currentMessageId + 1
              /\ UNCHANGED <<violations, currentViolationId, users>>
              /\ res' = MessageRes(200, messageData)

MessageRequest ==
  /\ \E matchId \in {1}, senderId \in UserIds, content \in Texts :
        PostMessages([matchId |-> matchId, senderId |-> senderId, content |-> content])
  /\ UNCHANGED <<currentUserId, swipeVars, blindDateVars, paymentVars, clockVars,
               offRouteVars>>

DayElapses ==
  /\ Tick(DayMs)
  /\ UNCHANGED <<userVars, swipeVars, messageVars, blindDateVars, paymentVars,
               offRouteVars>>

RegisterRequest(usernames) ==
  /\ \E email \in Emails, username \in usernames :
        PostRegister([email |-> email, username |-> username])
  /\ UNCHANGED <<swipeVars, messageVars, blindDateVars, paymentVars, clockVars,
               offRouteVars>>

PaymentRequest(types, amounts) ==
  /\ \E userId \in UserIds, amount \in amounts, type \in types :
        PostPayments([userId |-> userId, amount |-> amount, type |-> type])
  /\ UNCHANGED <<userVars, swipeVars, messageVars, blindDateVars, clockVars,
               offRouteVars>>

SettlePayment ==
  /\ \E id \in DOMAIN timers : Settle(id)
  /\ UNCHANGED <<swipeVars, messageVars, blindDateVars, clockVars,
               offRouteVars>>

PaymentTimerElapses ==
  /\ Tick(PaymentDelayMs)
  /\ UNCHANGED <<userVars, swipeVars, messageVars, blindDateVars, paymentVars,
               offRouteVars>>

CreateBlindDateRequest(amounts) ==
  /\ \E user1Id \in UserIds, amount \in amounts :
        PostBlindDates([user1Id |-> user1Id, amount |-> amount])
  /\ UNCHANGED <<currentUserId, swipeVars, messageVars, paymentVars, clockVars,
               offRouteVars>>

JoinBlindDateRequest ==
  /\ \E blindDateId \in 1..MaxBlindDates, userId \in UserIds :
        PostBlindDatesJoin(blindDateId, userId)
  /\ UNCHANGED <<currentUserId, swipeVars, messageVars, paymentVars, clockVars,
               offRouteVars>>

(***************************************************************************)
(* Specifications                                                          *)
(***************************************************************************)
Init ==
  /\ users = <<>> /\ currentUserId = 1
  /\ swipes = <<>> /\ currentSwipeId = 1
  /\ matches = <<>> /\ currentMatchId = 1
  /\ messages = <<>> /\ currentMessageId = 1
  /\ blindDates = <<>> /\ currentBlindDateId = 1
  /\ payments = <<>> /\ currentPaymentId = 1
  /\ violations = <<>> /\ currentViolationId = 1
  /\ profiles = <<>> /\ currentProfileId = 1
  /\ arStories = <<>> /\ currentArStoryId = 1
  /\ created = [type \in EntityTypes |-> <<>>]
  /\ requests = <<>>
  /\ manager = NewManager /\ invocations = <<>>
  /\ timers = <<>>
  /\ now = 0 /\ ticks = 0
  /\ phoneNumberRegexLastIndex = 0
  /\ phoneWordRegexLastIndex = 0
  /\ res = [op |-> "none", status |-> 0]

NextSwipe == SwipeRequest

SpecSwipe == Init /\ [][NextSwipe]_vars

\* register, payments and their settlement, blind-date create and join
NextEscrow ==
  \/ RegisterRequest({"ann"})
  \/ PaymentRequest({"wallet_topup", "fine"}, AmountStrings)
  \/ SettlePayment
  \/ PaymentTimerElapses
  \/ CreateBlindDateRequest(AmountStrings)
  \/ JoinBlindDateRequest

SpecEscrow == Init /\ [][NextEscrow]_vars

\* the same, every request carrying a positive decimal amount
NextEscrowPositive ==
  \/ RegisterRequest({"ann"})
  \/ PaymentRequest({"wallet_topup", "fine"}, PositiveAmountStrings)
  \/ SettlePayment
  \/ PaymentTimerElapses
  \/ CreateBlindDateRequest(PositiveAmountStrings)
  \/ JoinBlindDateRequest

SpecEscrowPositive == Init /\ [][NextEscrowPositive]_vars

\* register and message sending, over a day
NextMessages ==
  \/ RegisterRequest({"ann"})
  \/ MessageRequest
  \/ DayElapses

SpecMessages == Init /\ [][NextMessages]_vars

(***************************************************************************)
(* Properties of the matching engine (SpecSwipe)                           *)
(***************************************************************************)
HasLike(swipeMap, a, b) ==
  \E k \in DOMAIN swipeMap :
     /\ swipeMap[k].swiperId = a
     /\ swipeMap[k].swipedId = b
     /\ swipeMap[k].action = "like"

HasSwipe(swipeMap, a, b) ==
  \E k \in DOMAIN swipeMap : swipeMap[k].swiperId = a /\ swipeMap[k].swipedId = b

MatchesOf(matchMap, a, b) ==
  {k \in DOMAIN matchMap : {matchMap[k].user1Id, matchMap[k].user2Id} = {a, b}}

\* the step handled a swipe request
SwipeStep == res'.op = "swipe"

C1_OneMatch ==
  \A a \in UserIds, b \in UserIds :
     (HasLike(swipes, a, b) /\ HasLike(swipes, b, a))
        => Cardinality(MatchesOf(matches, a, b)) = 1

C1_LaterRejected ==
  (/\ SwipeStep
   /\ HasLike(swipes, res'.swiperId, res'.swipedId)
   /\ HasLike(swipes, res'.swipedId, res'.swiperId))
     => /\ res'.status = 400
        /\ matches' = matches
        /\ swipes' = swipes

\* C1: once A->B like and B->A like are both accepted, exactly one Match exists
\* for the unordered pair {A,B}, and every later swipe request A->B or B->A is
\* rejected as duplicate and creates no further Match.
C1_MutualLikeExactlyOneMatch == [](C1_OneMatch) /\ [][C1_LaterRejected]_vars

\* both likes of a pair of distinct users are stored, their one match exists,
\* and a further swipe on the pair has just been rejected
C1_Witness ==
  /\ res.op = "swipe" /\ res.status = 400
  /\ res.swiperId # res.swipedId
  /\ HasLike(swipes, res.swiperId, res.swipedId)
  /\ HasLike(swipes, res.swipedId, res.swiperId)
  /\ Cardinality(MatchesOf(matches, res.swiperId, res.swipedId)) = 1

C2_OnlyMutualLikes ==
  \A k \in DOMAIN matches :
     /\ HasLike(swipes, matches[k].user1Id, matches[k].user2Id)
     /\ HasLike(swipes, matches[k].user2Id, matches[k].user1Id)

C2_CreatedByLike ==
  matches' # matches
     => /\ SwipeStep
        /\ res'.action = "like"
        /\ res'.status = 200
        /\ HasLike(swipes', res'.swipedId, res'.swiperId)
        /\ (res'.swiperId # res'.swipedId
               => HasLike(swipes, res'.swipedId, res'.swiperId))
        /\ DOMAIN matches' = (DOMAIN matches) \cup {currentMatchId}
        /\ \A k \in DOMAIN matches : matches'[k] = matches[k]
        /\ matches'[currentMatchId].user1Id = res'.swiperId
        /\ matches'[currentMatchId].user2Id = res'.swipedId

\* C2: a Match for {A,B} is created only by a swipe request with action 'like'
\* whose reverse-direction swipe is stored with action 'like'; while at most
\* one of A->B and B->A is a 'like' (the other absent, 'pass' or 'super_like'),
\* no Match for {A,B} exists.
C2_MatchOnlyFromMutualLike == [](C2_OnlyMutualLikes) /\ [][C2_CreatedByLike]_vars

\* A->B is a like, B->A is stored as a super_like, and the pair has no match
C2_Witness ==
  \E a \in UserIds, b \in UserIds :
     /\ a # b
     /\ HasLike(swipes, a, b)
     /\ \E k \in DOMAIN swipes :
           /\ swipes[k].swiperId = b /\ swipes[k].swipedId = a
           /\ swipes[k].action = "super_like"
     /\ MatchesOf(matches, a, b) = {}

C3_OnePerOrderedPair ==
  \A i \in DOMAIN swipes, j \in DOMAIN swipes :
     (swipes[i].swiperId = swipes[j].swiperId /\ swipes[i].swipedId = swipes[j].swipedId)
        => i = j

C3_DuplicateRejected ==
  (SwipeStep /\ HasSwipe(swipes, res'.swiperId, res'.swipedId))
     => /\ res'.status = 400
        /\ UNCHANGED swipeVars

\* C3: the swipe store holds at most one swipe per ordered (swiperId, swipedId)
\* pair; a request for an ordered pair that already has a swipe is rejected
\* whatever its action and leaves the swipe store and the match store unchanged.
C3_AtMostOneSwipePerPair == [](C3_OnePerOrderedPair) /\ [][C3_DuplicateRejected]_vars

\* a request was rejected whose action differs from the stored swipe's
C3_Witness ==
  /\ res.op = "swipe" /\ res.status = 400
  /\ \E k \in DOMAIN swipes :
        /\ swipes[k].swiperId = res.swiperId
        /\ swipes[k].swipedId = res.swipedId
        /\ swipes[k].action # res.action

(***************************************************************************)
(* Properties of the blind-date escrow (SpecEscrow, SpecEscrowPositive)    *)
(***************************************************************************)
\* the step handled a blind-date create or join and answered 200
BlindDateSuccessStep ==
  res'.op \in {"createBlindDate", "join"} /\ res'.status = 200

\* the step handled a blind-date create or join and answered 400 or 404
BlindDateRejectedStep ==
  res'.op \in {"createBlindDate", "join"} /\ res'.status \in {400, 404}

\* the amount of the blind date a successful step created or joined
StepAmount == ParseFloat(blindDates'[res'.id].amount)

C4_Debit ==
  BlindDateSuccessStep
     => /\ DOMAIN users' = DOMAIN users
        /\ res'.userId \in DOMAIN users
        /\ users'[res'.userId].walletBalance
              = Sub(users[res'.userId].walletBalance, StepAmount)
        /\ \A u \in (DOMAIN users) \ {res'.userId} :
              users'[u].walletBalance = users[u].walletBalance

C5_NoEffect ==
  BlindDateRejectedStep => UNCHANGED <<users, currentUserId, blindDates, currentBlindDateId>>

\* C5: a blind-date create or join that is rejected (balance below the amount,
\* unknown user, unknown blind date) creates or modifies no BlindDate and
\* changes no user's walletBalance.
C5_RejectedHasNoEffect == [][C5_NoEffect]_vars

\* a create by a stored user with balance 0 was rejected while a blind date
\* is stored
C5_Witness ==
  /\ res.op = "createBlindDate" /\ res.status = 400
  /\ res.userId \in DOMAIN users
  /\ users[res.userId].walletBalance = Num(0)
  /\ blindDates # <<>>

C6_JoinOnMatched ==
  (/\ res'.op = "join"
   /\ res'.id \in DOMAIN blindDates
   /\ blindDates[res'.id].status = "matched")
     => /\ res'.status # 200
        /\ blindDates'[res'.id].user2Id = blindDates[res'.id].user2Id
        /\ blindDates'[res'.id].status = blindDates[res'.id].status
        /\ blindDates'[res'.id].scheduledFor = blindDates[res'.id].scheduledFor
        /\ \A u \in DOMAIN users : users'[u].walletBalance = users[u].walletBalance

\* C6: join succeeds only when the blind date's status is 'pending': a join on
\* a blind date that is already matched is rejected and changes neither its
\* user2Id, status or scheduledFor nor any walletBalance.
C6_JoinOnlyWhenPending == [][C6_JoinOnMatched]_vars

\* C7: join is rejected when the joining user is the blind date's original
\* requester, so no BlindDate ever has user2Id equal to its user1Id.
C7_NoSelfJoin ==
  \A b \in DOMAIN blindDates : blindDates[b].user2Id # blindDates[b].user1Id

C8_NullIffPending ==
  \A b \in DOMAIN blindDates :
     (blindDates[b].user2Id = Null) <=> (blindDates[b].status = "pending")

C8_OnlyForward ==
  \A b \in DOMAIN blindDates :
     /\ b \in DOMAIN blindDates'
     /\ blindDates'[b].status # blindDates[b].status
           => /\ blindDates[b].status = "pending"
              /\ blindDates'[b].status = "matched"
              /\ res'.op = "join" /\ res'.status = 200 /\ res'.id = b

\* C8: each BlindDate has user2Id = null exactly when its status is 'pending';
\* a status only ever changes from 'pending' to 'matched', by a join, and never
\* returns to 'pending'.
C8_PendingUntilJoined == [](C8_NullIffPending) /\ [][C8_OnlyForward]_vars

\* a blind date was joined after the clock had advanced: it is matched and
\* holds the joiner as user2Id
C8_Witness ==
  /\ res.op = "join" /\ res.status = 200
  /\ blindDates[res.id].status = "matched"
  /\ blindDates[res.id].user2Id = res.userId
  /\ blindDates[res.id].scheduledFor > DayMs

\* C9: in every state reachable through register, payment creation and
\* settlement, blind-date create and blind-date join, every user's
\* walletBalance is >= 0.
C9_WalletNeverNegative ==
  \A u \in DOMAIN users : Ge(users[u].walletBalance, Num(0))

(***************************************************************************)
(* Properties of message sending (SpecMessages)                            *)
(***************************************************************************)
\* the step handled a message-send request
MessageStep == res'.op = "message"

\* the verdict of the phone check on the content of the step's request
JudgedViolation ==
  containsPhoneNumber(res'.content, phoneNumberRegexLastIndex,
                      phoneWordRegexLastIndex).result

C10_Violation ==
  (MessageStep /\ JudgedViolation)
     => /\ res'.status = 403
        /\ messages' = messages
        /\ DOMAIN violations' = (DOMAIN violations) \cup {currentViolationId}
        /\ currentViolationId \notin DOMAIN violations
        /\ \A v \in DOMAIN violations : violations'[v] = violations[v]
        /\ violations'[currentViolationId].userId = res'.senderId
        /\ violations'[currentViolationId].type = "phone_number"
        /\ violations'[currentViolationId].fineAmount = "100.00"
        /\ violations'[currentViolationId].status = "pending"
        /\ res'.senderId \in DOMAIN users
              => users'[res'.senderId].suspendedUntil = now + DayMs
        /\ \A u \in (DOMAIN users) \ {res'.senderId} :
              users'[u].suspendedUntil = users[u].suspendedUntil

C10_NoViolation ==
  (MessageStep /\ ~JudgedViolation)
     => /\ res'.status = 200
        /\ DOMAIN messages' = (DOMAIN messages) \cup {currentMessageId}
        /\ currentMessageId \notin DOMAIN messages
        /\ \A m \in DOMAIN messages : messages'[m] = messages[m]
        /\ messages'[currentMessageId].senderId = res'.senderId
        /\ messages'[currentMessageId].content = res'.content
        /\ violations' = violations
        /\ \A u \in DOMAIN users : users'[u].suspendedUntil = users[u].suspendedUntil

\* C10: a message-send request whose content is judged a violation stores no
\* Message, creates exactly one Violation (phone_number, 100.00, pending) for
\* the sender and sets the sender's suspendedUntil to the request time + 24
\* hours; one whose content is not judged a violation stores exactly one
\* Message, creates no Violation and changes no suspendedUntil.
C10_ViolationRejectsAndSuspends == [][C10_Violation /\ C10_NoViolation]_vars

\* a day after the start a stored user's message was rejected and the user
\* suspended for the following day, after a message had been stored
C10_Witness ==
  /\ res.op = "message" /\ res.status = 403
  /\ res.senderId \in DOMAIN users
  /\ users[res.senderId].suspendedUntil = DayMs + DayMs
  /\ messages # <<>>
  /\ violations # <<>>

\* the contents the phone check has rejected, and those it has let through
RejectedContents == {violations[v].content : v \in DOMAIN violations}
AcceptedContents == {messages[m].content : m \in DOMAIN messages}

C11_SameVerdict ==
  MessageStep
     => /\ res'.content \in RejectedContents => res'.status = 403
        /\ res'.content \in AcceptedContents => res'.status = 200

\* C11: the verdict of the phone check of the message-send path depends only
\* on the text: a content that was rejected once is rejected every time it is
\* sent, and one that was accepted once is accepted every time.
C11_VerdictDependsOnlyOnText == [][C11_SameVerdict]_vars

(***************************************************************************)
(* Payments, their timers and the suspension a fine pays for                *)
(***************************************************************************)
\* POST /api/messages with a content out of contents
MessageRequestOf(contents) ==
  /\ \E matchId \in {1}, senderId \in UserIds, content \in contents :
        PostMessages([matchId |-> matchId, senderId |-> senderId, content |-> content])
  /\ UNCHANGED <<currentUserId, swipeVars, blindDateVars, paymentVars, clockVars,
               offRouteVars>>

\* time passes until the timers that are set have run out (PaymentDelayMs
\* after now, no timer set earlier is still waiting)
PaymentTimerDue ==
  /\ \E id \in DOMAIN timers : now < timers[id]
  /\ now' = now + PaymentDelayMs
  /\ ticks' = ticks + 1
  /\ res' = [op |-> "tick", status |-> 0]
  /\ UNCHANGED <<userVars, swipeVars, messageVars, blindDateVars, paymentVars,
               offRouteVars>>

\* the setTimeout callback of payment id, as a step of the server
SettlePaymentOf(id) ==
  /\ Settle(id)
  /\ UNCHANGED <<swipeVars, messageVars, blindDateVars, clockVars,
               offRouteVars>>

SettleAnyPayment == \E id \in 1..MaxPayments : SettlePaymentOf(id)

\* register, message sending, payments of every type and their settlement
NextPayments ==
  \/ RegisterRequest({"ann"})
  \/ MessageRequestOf({<<"five">>})
  \/ PaymentRequest(PaymentTypes, {"1.00"})
  \/ PaymentTimerDue
  \/ SettleAnyPayment

\* time passes, and a timer that has run out fires
SpecPayments ==
  /\ Init /\ [][NextPayments]_vars
  /\ WF_vars(PaymentTimerDue)
  /\ \A id \in 1..MaxPayments : WF_vars(SettlePaymentOf(id))

(***************************************************************************)
(* Properties of payments and fines (SpecPayments)                         *)
(***************************************************************************)
\* the step ran the settlement callback of a payment
SettleStep == res'.op = "settle"

\* the one field the settlement of payment p sets on its user, and its value
SettledField(p) ==
  IF p.type = "premium" THEN "isPremium"
  ELSE IF p.type = "fine" THEN "suspendedUntil"
  ELSE "walletBalance"

SettledValue(p, user) ==
  IF p.type = "premium" THEN TRUE
  ELSE IF p.type = "fine" THEN Null
  ELSE Add(user.walletBalance, ParseFloat(p.amount))

C12_Created ==
  res'.op = "payment"
     => /\ res'.id \notin DOMAIN payments
        /\ payments'[res'.id].status = "pending"
        /\ \A id \in DOMAIN payments : payments'[id] = payments[id]
        /\ users' = users

C12_Settled ==
  SettleStep
     => LET p == payments[res'.id]
        IN  /\ p.status = "pending"
            /\ payments' = [payments EXCEPT ![res'.id].status = "completed"]
            /\ DOMAIN users' = DOMAIN users
            /\ \A u \in DOMAIN users :
                  \A f \in DOMAIN users[u] :
                     users'[u][f] = IF u = p.userId /\ f = SettledField(p)
                                    THEN SettledValue(p, users[u])
                                    ELSE users[u][f]

C12_StatusKept ==
  \A id \in DOMAIN payments :
     /\ id \in DOMAIN payments'
     /\ payments'[id].status # payments[id].status => SettleStep /\ res'.id = id

C12_Eventually ==
  \A id \in 1..MaxPayments :
     (id \in DOMAIN payments)
        ~> (id \in DOMAIN payments /\ payments[id].status = "completed")

C13_FineSettled ==
  (/\ SettleStep
   /\ payments[res'.id].type = "fine"
   /\ payments[res'.id].userId \in DOMAIN users)
     => \A v \in DOMAIN violations' :
           violations'[v].userId = payments[res'.id].userId
              => violations'[v].status # "pending"

\* C13: once a payment of type 'fine' of a stored user is settled, no
\* Violation of that user has status 'pending'.
C13_FineResolvesViolation == [][C13_FineSettled]_vars

(***************************************************************************)
(* Accounts: registration with any username, and the suspensions that      *)
(* message sending writes to the registered users                          *)
(***************************************************************************)
NextAccounts ==
  \/ RegisterRequest(Usernames)
  \/ MessageRequestOf({<<"five">>})

SpecAccounts == Init /\ [][NextAccounts]_vars

(***************************************************************************)
(* Properties of the stores (SpecMessages, SpecAccounts)                   *)
(***************************************************************************)
\* C14: each stored Message belongs to a stored Match, and its senderId is
\* that Match's user1Id or user2Id.
C14_SenderIsParticipant ==
  \A m \in DOMAIN messages :
     /\ messages[m].matchId \in DOMAIN matches
     /\ messages[m].senderId \in {matches[messages[m].matchId].user1Id,
                                  matches[messages[m].matchId].user2Id}

C15_EmailUnique ==
  \A i \in DOMAIN users, j \in DOMAIN users :
     users[i].email = users[j].email => i = j

C15_DuplicateRejected ==
  (res'.op = "register" /\ \E u \in DOMAIN users : users[u].email = res'.email)
     => /\ res'.status = 400
        /\ UNCHANGED userVars

\* C15: no two stored users have the same email; a register request whose
\* email belongs to a stored user is rejected and creates no user.
C15_EmailIsUnique == [](C15_EmailUnique) /\ [][C15_DuplicateRejected]_vars

\* with two users stored, a register request for the email of the second was
\* rejected
C15_Witness ==
  /\ res.op = "register" /\ res.status = 400
  /\ DOMAIN users = {1, 2}
  /\ users[2].email = res.email

\* C16: no two stored users have the same username.
C16_UsernameIsUnique ==
  \A i \in DOMAIN users, j \in DOMAIN users :
     users[i].username = users[j].username => i = j

(***************************************************************************)
(* The repository called directly: one step per call of a create method of *)
(* MemStorage, and of deleteProfile, the one method that removes an        *)
(* entity.  created records the ids in the order they were handed out.     *)
(***************************************************************************)
createProfile(profileMap, id, insertProfile) ==
  MapSet(profileMap, id,
         [id |-> id, userId |-> insertProfile.userId, isApproved |-> FALSE])

\* Map.delete
deleteProfile(profileMap, id) ==
  [k \in (DOMAIN profileMap) \ {id} |-> profileMap[k]]

createArStory(arStoryMap, id, insertArStory) ==
  MapSet(arStoryMap, id, [id |-> id, userId |-> insertArStory.userId, views |-> 0])

\* the call of a create method returned the entity with this id
Created(type, id) ==
  /\ created' = [created EXCEPT ![type] = Append(@, id)]
  /\ res' = [op |-> "create", status |-> 0, type |-> type, id |-> id]

CreateUser ==
  /\ currentUserId <= MaxUsers
  /\ users' = createUser(users, currentUserId, [email |-> "a@lovear.app", username |-> "ann"])
  /\ currentUserId' = currentUserId + 1
  /\ Created("user", currentUserId)
  /\ UNCHANGED <<profileVars, swipeVars, messageVars, blindDateVars, arStoryVars,
                 paymentVars, clockVars, requests, managerVars>>

\* mutant of CreateProfile: the id is the number of stored profiles plus one
CreateProfile_FromSize ==
  /\ currentProfileId <= MaxProfiles
  /\ profiles' = createProfile(profiles, Cardinality(DOMAIN profiles) + 1, [userId |-> 1])
  /\ currentProfileId' = currentProfileId + 1
  /\ Created("profile", Cardinality(DOMAIN profiles) + 1)
  /\ UNCHANGED <<userVars, swipeVars, messageVars, blindDateVars, arStoryVars,
                 paymentVars, clockVars, requests, managerVars>>

CreateProfile ==
  /\ currentProfileId <= MaxProfiles
  /\ profiles' = createProfile(profiles, currentProfileId, [userId |-> 1])
  /\ currentProfileId' = currentProfileId + 1
  /\ Created("profile", currentProfileId)
  /\ UNCHANGED <<userVars, swipeVars, messageVars, blindDateVars, arStoryVars,
                 paymentVars, clockVars, requests, managerVars>>

DeleteProfile ==
  /\ \E id \in 1..MaxProfiles :
        /\ profiles' = deleteProfile(profiles, id)
        /\ res' = [op |-> "delete", status |-> 0, type |-> "profile", id |-> id]
  /\ UNCHANGED <<currentProfileId, created, userVars, swipeVars, messageVars,
                 blindDateVars, arStoryVars, paymentVars, clockVars, requests, managerVars>>

CreateMatch ==
  /\ currentMatchId <= MaxMatches
  /\ matches' = createMatch(matches, currentMatchId, [user1Id |-> 1, user2Id |-> 2])
  /\ currentMatchId' = currentMatchId + 1
  /\ Created("match", currentMatchId)
  /\ UNCHANGED <<userVars, profileVars, swipes, currentSwipeId, messageVars,
                 blindDateVars, arStoryVars, paymentVars, clockVars, requests, managerVars>>

CreateSwipe ==
  /\ currentSwipeId <= MaxSwipes
  /\ swipes' = createSwipe(swipes, currentSwipeId,
                           [swiperId |-> 1, swipedId |-> 2, action |-> "like"])
  /\ currentSwipeId' = currentSwipeId + 1
  /\ Created("swipe", currentSwipeId)
  /\ UNCHANGED <<userVars, profileVars, matches, currentMatchId, messageVars,
                 blindDateVars, arStoryVars, paymentVars, clockVars, requests, managerVars>>

CreateMessage ==
  /\ currentMessageId <= MaxMessages
  /\ messages' = createMessage(messages, currentMessageId,
                               [matchId |-> 1, senderId |-> 1, content |-> <<"hi">>])
  /\ currentMessageId' = currentMessageId + 1
  /\ Created("message", currentMessageId)
  /\ UNCHANGED <<userVars, profileVars, swipeVars, violations, currentViolationId,
                 phoneNumberRegexLastIndex, phoneWordRegexLastIndex,
                 blindDateVars, arStoryVars, paymentVars, clockVars, requests, managerVars>>

CreateBlindDate ==
  /\ currentBlindDateId <= MaxBlindDates
  /\ blindDates' = createBlindDate(blindDates, currentBlindDateId,
                                   [user1Id |-> 1, amount |-> "1.00"])
  /\ currentBlindDateId' = currentBlindDateId + 1
  /\ Created("blindDate", currentBlindDateId)
  /\ UNCHANGED <<userVars, profileVars, swipeVars, messageVars, arStoryVars,
                 paymentVars, clockVars, requests, managerVars>>

CreateArStory ==
  /\ currentArStoryId <= MaxArStories
  /\ arStories' = createArStory(arStories, currentArStoryId, [userId |-> 1])
  /\ currentArStoryId' = currentArStoryId + 1
  /\ Created("arStory", currentArStoryId)
  /\ UNCHANGED <<userVars, profileVars, swipeVars, messageVars, blindDateVars,
                 paymentVars, clockVars, requests, managerVars>>

CreatePayment ==
  /\ currentPaymentId <= MaxPayments
  /\ payments' = createPayment(payments, currentPaymentId,
                               [userId |-> 1, amount |-> "1.00", type |-> "wallet_topup"])
  /\ currentPaymentId' = currentPaymentId + 1
  /\ Created("payment", currentPaymentId)
  /\ UNCHANGED <<userVars, profileVars, swipeVars, messageVars, blindDateVars,
                 arStoryVars, timers, clockVars, requests, managerVars>>

CreateViolation ==
  /\ currentViolationId <= MaxViolations
  /\ violations' = createViolation(violations, currentViolationId,
                                   [userId |-> 1, type |-> "phone_number",
                                    content |-> <<"five">>, fineAmount |-> "100.00"])
  /\ currentViolationId' = currentViolationId + 1
  /\ Created("violation", currentViolationId)
  /\ UNCHANGED <<userVars, profileVars, swipeVars, messages, currentMessageId,
                 phoneNumberRegexLastIndex, phoneWordRegexLastIndex,
                 blindDateVars, arStoryVars, paymentVars, clockVars, requests, managerVars>>

NextStorage ==
  \/ CreateUser
  \/ CreateProfile
  \/ DeleteProfile
  \/ CreateMatch
  \/ CreateSwipe
  \/ CreateMessage
  \/ CreateBlindDate
  \/ CreateArStory
  \/ CreatePayment
  \/ CreateViolation

SpecStorage == Init /\ [][NextStorage]_vars

(***************************************************************************)
(* Properties of the repository (SpecStorage)                              *)
(***************************************************************************)
\* the Map and the counter of an entity type
Store(type) ==
  CASE type = "user" -> users
    [] type = "profile" -> profiles
    [] type = "match" -> matches
    [] type = "swipe" -> swipes
    [] type = "message" -> messages
    [] type = "blindDate" -> blindDates
    [] type = "arStory" -> arStories
    [] type = "payment" -> payments
    [] type = "violation" -> violations

Counter(type) ==
  CASE type = "user" -> currentUserId
    [] type = "profile" -> currentProfileId
    [] type = "match" -> currentMatchId
    [] type = "swipe" -> currentSwipeId
    [] type = "message" -> currentMessageId
    [] type = "blindDate" -> currentBlindDateId
    [] type = "arStory" -> currentArStoryId
    [] type = "payment" -> currentPaymentId
    [] type = "violation" -> currentViolationId

C17_Ids ==
  \A type \in EntityTypes :
     LET ids == created[type]
     IN  /\ ids # <<>> => ids[1] = 1
         /\ \A i \in 1..Len(ids), j \in 1..Len(ids) : i < j => ids[i] < ids[j]
         /\ \A k \in DOMAIN Store(type) :
               /\ Store(type)[k].id = k
               /\ \E i \in 1..Len(ids) : ids[i] = k

C17_OwnCounter ==
  \A type \in EntityTypes :
     Counter(type)' # Counter(type)
        => /\ res'.op = "create" /\ res'.type = type
           /\ Counter(type)' > Counter(type)

\* C17: for each entity type, the ids handed out start at 1 and strictly
\* increase in creation order (so they are pairwise distinct, and an id is not
\* handed out again after deleteProfile removed its entity); every stored
\* entity carries the id it was created with; a counter moves only when an
\* entity of its own type is created.
C17_PerTypeIds == [](C17_Ids) /\ [][C17_OwnCounter]_vars

\* profile 1 was created and deleted, a user was created, and the profile
\* created after that has id 2
C17_Witness ==
  /\ res.op = "create" /\ res.type = "profile" /\ res.id = 2
  /\ DOMAIN profiles = {2}
  /\ created["profile"] = <<1, 2>>
  /\ created["user"] = <<1>>

(***************************************************************************)
(* The update methods of the repository called directly (SpecUpdate).      *)
(* updateUser, updateBlindDate and updatePayment have the same body on     *)
(* their own Map: get, return undefined when absent, else store and return *)
(* { ...entity, ...updates }.                                              *)
(***************************************************************************)
\* mutant of UpdateEntity: an unknown id stores the partial as a new entity
UpdateEntity_Upsert(map, id, updates) ==
  LET updated == IF id \in DOMAIN map THEN Merge(map[id], updates) ELSE updates
  IN  [map |-> MapSet(map, id, updated), result |-> {updated}]

\* the Map after update(id, updates), and what the call returns ({} for
\* undefined)
UpdateEntity(map, id, updates) ==
  IF id \notin DOMAIN map THEN [map |-> map, result |-> {}]
  ELSE LET updated == Merge(map[id], updates)
       IN  [map |-> MapSet(map, id, updated), result |-> {updated}]

UserUpdates ==
  {[isPremium |-> TRUE],
   [walletBalance |-> Num(1), suspendedUntil |-> DayMs]}

\* the partial matchBlindDate passes
BlindDateUpdates == {[user2Id |-> 2, status |-> "matched", scheduledFor |-> DayMs]}

\* the partial the settlement callback passes: it names a field the stored
\* payment does not have yet
PaymentUpdates == {[status |-> "completed", transactionId |-> "txn_0"]}

UpdateRes(type, id, updates, result) ==
  [op |-> "update", status |-> 0, type |-> type, id |-> id, updates |-> updates,
   result |-> result]

UpdateUser ==
  /\ \E id \in 1..MaxUsers, updates \in UserUpdates :
        LET call == UpdateEntity(users, id, updates)
        IN  /\ users' = call.map
            /\ res' = UpdateRes("user", id, updates, call.result)
  /\ UNCHANGED <<currentUserId, profileVars, swipeVars, messageVars, blindDateVars,
                 arStoryVars, paymentVars, clockVars, created,
                 requests, managerVars>>

UpdateBlindDate ==
  /\ \E id \in 1..MaxBlindDates, updates \in BlindDateUpdates :
        LET call == UpdateEntity(blindDates, id, updates)
        IN  /\ blindDates' = call.map
            /\ res' = UpdateRes("blindDate", id, updates, call.result)
  /\ UNCHANGED <<userVars, profileVars, swipeVars, messageVars, currentBlindDateId,
                 arStoryVars, paymentVars, clockVars, created,
                 requests, managerVars>>

UpdatePayment ==
  /\ \E id \in 1..MaxPayments, updates \in PaymentUpdates :
        LET call == UpdateEntity(payments, id, updates)
        IN  /\ payments' = call.map
            /\ res' = UpdateRes("payment", id, updates, call.result)
  /\ UNCHANGED <<userVars, profileVars, swipeVars, messageVars, blindDateVars,
                 arStoryVars, currentPaymentId, timers, clockVars, created,
                 requests, managerVars>>

NextUpdate ==
  \/ CreateUser
  \/ CreateBlindDate
  \/ CreatePayment
  \/ UpdateUser
  \/ UpdateBlindDate
  \/ UpdatePayment

SpecUpdate == Init /\ [][NextUpdate]_vars

\* the step was a call of an update method
UpdateStep == res'.op = "update"

\* the Map of an entity type after the step
StoreAfter(type) ==
  CASE type = "user" -> users'
    [] type = "profile" -> profiles'
    [] type = "match" -> matches'
    [] type = "swipe" -> swipes'
    [] type = "message" -> messages'
    [] type = "blindDate" -> blindDates'
    [] type = "arStory" -> arStories'
    [] type = "payment" -> payments'
    [] type = "violation" -> violations'

C18_Unknown ==
  (UpdateStep /\ res'.id \notin DOMAIN Store(res'.type))
     => /\ res'.result = {}
        /\ \A type \in EntityTypes : StoreAfter(type) = Store(type)

C18_Known ==
  (UpdateStep /\ res'.id \in DOMAIN Store(res'.type))
     => LET old == Store(res'.type)[res'.id]
            new == StoreAfter(res'.type)[res'.id]
        IN  /\ res'.result = {new}
            /\ DOMAIN StoreAfter(res'.type) = DOMAIN Store(res'.type)
            /\ DOMAIN new = (DOMAIN old) \cup (DOMAIN res'.updates)
            /\ \A f \in DOMAIN res'.updates : new[f] = res'.updates[f]
            /\ \A f \in (DOMAIN old) \ (DOMAIN res'.updates) : new[f] = old[f]
            /\ \A k \in (DOMAIN Store(res'.type)) \ {res'.id} :
                  StoreAfter(res'.type)[k] = Store(res'.type)[k]
            /\ \A type \in EntityTypes \ {res'.type} : StoreAfter(type) = Store(type)

\* C18: update(id, partial) on users, blind dates and payments returns
\* undefined and changes no store when id is unknown; when id is known it
\* gives the fields named in partial their new values on that one entity,
\* keeps its other fields, keeps every other entity, and returns the entity.
C18_UpdateFrame == [][C18_Unknown /\ C18_Known]_vars

\* of two stored users the second was updated in two fields, the first
\* keeping the values it was created with
C18_Witness ==
  /\ res.op = "update" /\ res.type = "user" /\ res.id = 2
  /\ res.result # {}
  /\ DOMAIN users = {1, 2}
  /\ users[2].walletBalance = Num(1) /\ users[2].suspendedUntil = DayMs
  /\ users[1].walletBalance = Num(0) /\ users[1].suspendedUntil = Null

(***************************************************************************)
(* Discovery (SpecDiscover).  Users register one after the other, each     *)
(* with an email of their own, a location and preferences; coordinates are *)
(* decimal strings.  The result of a discover request is                   *)
(* held as the set of the ids of the users it lists.                       *)
(***************************************************************************)
\* Array.from({ length: 100 }, ...): the swipedIds the handler looks up
DiscoverScanLength == 100

\* new Date().getFullYear()
ThisYear == 2026

\* a string of a query or a column is truthy unless missing or empty
Truthy(record, field) == field \in DOMAIN record /\ record[field] # ""

\* parseFloat of a coordinate, in hundredths of a degree
ParseDegrees(str) ==
  CASE str = "0.00" -> Num(0)
    [] str = "0.05" -> Num(5)
    [] str = "1.00" -> Num(100)
    [] OTHER -> NaN

\* mutant of WithinRadius: the distance is left in degrees
WithinRadius_InDegrees(lat, lng, userLat, userLng, radius) ==
  /\ ~lat.nan /\ ~lng.nan /\ ~userLat.nan /\ ~userLng.nan
  /\ radius >= 0
  /\ ((lat.v - userLat.v) * (lat.v - userLat.v)
         + (lng.v - userLng.v) * (lng.v - userLng.v))
       <= (radius * 100) * (radius * 100)

\* Math.sqrt(dLat^2 + dLng^2) * 111 <= radius, the coordinates in hundredths
\* of a degree and the radius a whole number of km: both sides squared
WithinRadius(lat, lng, userLat, userLng, radius) ==
  /\ ~lat.nan /\ ~lng.nan /\ ~userLat.nan /\ ~userLng.nan
  /\ radius >= 0
  /\ ((lat.v - userLat.v) * (lat.v - userLat.v)
         + (lng.v - userLng.v) * (lng.v - userLng.v)) * 111 * 111
       <= (radius * 100) * (radius * 100)

\* the ids of the users getUsersNearby returns
getUsersNearby(userMap, lat, lng, radius, excludeIds) ==
  {k \in DOMAIN userMap :
     /\ userMap[k].id \notin excludeIds
     /\ Truthy(userMap[k], "latitude")
     /\ Truthy(userMap[k], "longitude")
     /\ WithinRadius(lat, lng, ParseDegrees(userMap[k].latitude),
                     ParseDegrees(userMap[k].longitude), radius)}

\* the swipedId of every swipe getSwipe(currentUser.id, i + 1) finds
SwipedIds(swipeMap, swiperId) ==
  {swipe.swipedId : swipe \in UNION {getSwipe(swipeMap, swiperId, i) :
                                        i \in 1..DiscoverScanLength}}

\* the filter by preferences
Preferred(currentUser, user) ==
  LET age == ThisYear - user.birthYear
  IN  /\ age >= currentUser.ageMin /\ age <= currentUser.ageMax
      /\ (currentUser.lookingFor = "both" \/ user.gender = currentUser.lookingFor)

DiscoverRes(status, query, result) ==
  [op |-> "discover", status |-> status, userId |-> query.userId, result |-> result]

GetDiscover(query) ==
  IF ~Truthy(query, "lat") \/ ~Truthy(query, "lng")
  THEN res' = DiscoverRes(400, query, {})
  ELSE IF getUser(users, query.userId) = {}
  THEN res' = DiscoverRes(404, query, {})
  ELSE LET currentUser == users[query.userId]
           swipedIds == SwipedIds(swipes, currentUser.id)
           nearbyUsers == getUsersNearby(users, ParseDegrees(query.lat),
                                         ParseDegrees(query.lng), query.radius,
                                         {currentUser.id} \cup swipedIds)
           filteredUsers == {k \in nearbyUsers : Preferred(currentUser, users[k])}
       IN  res' = DiscoverRes(200, query, filteredUsers)

\* the body of the register request of the newcomer who will get this id
Newcomer(id) ==
  [email |-> <<"user", id>>, username |-> <<"user", id>>,
   latitude |-> "0.00", longitude |-> "0.00", birthYear |-> 2000,
   gender |-> "female", lookingFor |-> "both", ageMin |-> 18, ageMax |-> 100]

RegisterNewcomer ==
  /\ PostRegisterWithin(Newcomer(currentUserId), MaxRegistered)
  /\ UNCHANGED <<swipeVars, messageVars, blindDateVars, paymentVars, clockVars,
                 offRouteVars>>

\* POST /api/swipe of user 1 on a user out of swipedIds
SwipeRequestOn(swipedIds) ==
  /\ \E swipedId \in swipedIds, action \in {"like", "pass"} :
        PostSwipe([swiperId |-> 1, swipedId |-> swipedId, action |-> action])
  /\ UNCHANGED <<userVars, messageVars, blindDateVars, paymentVars, clockVars,
                 offRouteVars>>

DiscoverRequest ==
  /\ \E userId \in {1, 2}, lat \in {"", "0.00", "1.00"} :
        GetDiscover([userId |-> userId, lat |-> lat, lng |-> "0.00", radius |-> 50])
  /\ UNCHANGED <<userVars, swipeVars, messageVars, blindDateVars, paymentVars,
                 clockVars, offRouteVars>>

NextDiscover ==
  \/ RegisterNewcomer
  \/ SwipeRequestOn({2, MaxRegistered})
  \/ DiscoverRequest

SpecDiscover == Init /\ [][NextDiscover]_vars

(***************************************************************************)
(* Properties of discovery (SpecDiscover)                                  *)
(***************************************************************************)
C19_Excluded ==
  (res'.op = "discover" /\ res'.status = 200)
     => /\ res'.userId \notin res'.result
        /\ \A u \in DOMAIN users :
              HasSwipe(swipes, res'.userId, u) => u \notin res'.result

\* C19: the discover result for a requesting user R contains neither R nor
\* any user U for whom a swipe with swiperId = R and swipedId = U is stored.
C19_DiscoverExcludesSwiped == [][C19_Excluded]_vars

(***************************************************************************)
(* ContentModerator: detection of spelled-out phone numbers                *)
(* (SpecModerator).  A text is the sequence of the words that              *)
(* text.toLowerCase().split(/\s+/) gives; none of the words used holds a   *)
(* digit, so the digit patterns of detectPhoneNumbers match nothing in     *)
(* them.  A confidence is held in tenths.                                  *)
(***************************************************************************)
numberWords == {"zero", "one", "two", "three", "four", "five", "six", "seven",
                "eight", "nine", "oh", "o"}

\* the example of the specification: three other words, then ten number words
ExampleText ==
  <<"my", "number", "is", "five", "five", "five", "one", "two", "three", "four",
    "five", "six", "seven">>

\* the texts given to the moderator
ModeratedTexts ==
  (UNION {[1..n -> {"five", "hi"}] : n \in 0..MaxWords}) \cup {ExampleText}

\* the inner loop started at word i (words counted from 1): the index of the
\* first word in i..Min(i + 14, Len) that is no number word, or the index after
\* that window when all of its words are number words
RECURSIVE LoopStop(_, _, _)
LoopStop(words, i, j) ==
  IF j > i + 14 \/ j > Len(words) THEN j
  ELSE IF words[j] \in numberWords THEN LoopStop(words, i, j + 1)
  ELSE j

\* Math.min(0.9, consecutiveNumbers / 10), in tenths
SpelledConfidence(consecutiveNumbers) ==
  IF consecutiveNumbers < 9 THEN consecutiveNumbers ELSE 9

\* what the inner loop started at word i pushes: a match when it met a word
\* that is no number word after at least 7 number words, else nothing
SpelledMatchAt(words, i) ==
  LET stop == LoopStop(words, i, i)
      consecutiveNumbers == stop - i
  IN  IF stop <= Len(words) /\ stop <= i + 14 /\ consecutiveNumbers >= 7
      THEN <<[text |-> SubSeq(words, i, stop - 1), type |-> "spelled",
              confidence |-> SpelledConfidence(consecutiveNumbers)]>>
      ELSE <<>>

\* the outer loop: for (let i = 0; i < words.length - 6; i++)
RECURSIVE SpelledMatchesFrom(_, _)
SpelledMatchesFrom(words, i) ==
  IF i > Len(words) - 6 THEN <<>>
  ELSE SpelledMatchAt(words, i) \o SpelledMatchesFrom(words, i + 1)

detectSpelledPhoneNumbers(words) == SpelledMatchesFrom(words, 1)

\* this.config.strictMode ? 0.3 : 0.6, in tenths
ConfidenceThreshold(strictMode) == IF strictMode THEN 3 ELSE 6

IsConfident(match, strictMode) == match.confidence >= ConfidenceThreshold(strictMode)

\* detectPhoneNumbers on a text without digits: the spelled matches that pass
\* the confidence threshold
detectPhoneNumbers(words, strictMode) ==
  SelectSeq(detectSpelledPhoneNumbers(words), LAMBDA match : IsConfident(match, strictMode))

DetectPhoneNumbersCall ==
  /\ \E words \in ModeratedTexts, strictMode \in BOOLEAN :
        res' = [op |-> "detectPhoneNumbers", status |-> 0, text |-> words,
                strictMode |-> strictMode,
                spelled |-> detectSpelledPhoneNumbers(words),
                matches |-> detectPhoneNumbers(words, strictMode)]
  /\ UNCHANGED <<userVars, swipeVars, messageVars, blindDateVars, paymentVars,
                 clockVars, offRouteVars>>

NextModerator == DetectPhoneNumbersCall

SpecModerator == Init /\ [][NextModerator]_vars

(***************************************************************************)
(* Properties of the content moderator (SpecModerator)                     *)
(***************************************************************************)
\* words i..i+n-1 of the text are number words
IsRun(words, i, n) ==
  i + n - 1 <= Len(words) /\ \A k \in i..(i + n - 1) : words[k] \in numberWords

\* the lengths of the runs of number words that cannot be extended
MaximalRuns(words) ==
  {n \in 1..Len(words) :
     \E i \in 1..Len(words) :
        /\ IsRun(words, i, n)
        /\ (i = 1 \/ words[i - 1] \notin numberWords)
        /\ (i + n > Len(words) \/ words[i + n] \notin numberWords)}

C20_Flagged ==
  (/\ res'.op = "detectPhoneNumbers"
   /\ \E n \in MaximalRuns(res'.text) : n >= 7)
     => \E k \in DOMAIN res'.matches :
           /\ res'.matches[k].type = "spelled"
           /\ \E n \in MaximalRuns(res'.text) :
                 n >= 7 /\ res'.matches[k].confidence = SpelledConfidence(n)

\* C20: every text that holds a run of at least 7 consecutive number words,
\* wherever the run sits, is flagged by a match of type 'spelled' whose
\* confidence is min(0.9, run length / 10).
C20_SpelledRunIsFlagged == [][C20_Flagged]_vars

(***************************************************************************)
(* ContentModerator: the verdict of moderateContent and the spam score     *)
(* (SpecModeration).  A text is a sequence of words joined by single       *)
(* spaces, a keyword the sequence of its words; none of the words used     *)
(* holds a digit.  Confidences and scores are held in tenths: every        *)
(* number the code adds is a multiple of 0.1, and the one sum that meets   *)
(* the threshold 0.6 exactly, 0.2 + 0.2 + 0.2, is 0.6000000000000001 in    *)
(* doubles, which passes >= 0.6 as the exact sum does.                     *)
(***************************************************************************)
MaxModeratedWords == 4   \* words of a text given to moderateContent

ModeratedWords == {"BUY", "NOW!!!", "Hi", "hi", "viagra", "bitcoin", "sex", "constructor"}

\* 'BUY NOW!!! BUY NOW!!! BUY NOW!!! BUY NOW!!!'
SpamExample == <<"BUY", "NOW!!!", "BUY", "NOW!!!", "BUY", "NOW!!!", "BUY", "NOW!!!">>

\* seven number words and the word that ends their run
SpelledRun(last) == <<"five", "five", "five", "five", "five", "five", "five", last>>

ModerationTexts ==
  (UNION {[1..n -> ModeratedWords] : n \in 0..MaxModeratedWords})
     \cup {SpamExample, SpelledRun("hi"), SpelledRun("sex"), SpelledRun("viagra"),
           <<"viagra", "NOW!!!", "constructor", "constructor", "constructor",
             "constructor">>,
           <<"viagra", "NOW!!!", "hi", "Hi", "hi", "Hi">>}

\* word.toLowerCase()
ToLowerCase(word) ==
  CASE word = "BUY" -> "buy"
    [] word = "NOW!!!" -> "now!!!"
    [] word = "Hi" -> "hi"
    [] OTHER -> word

\* the number of characters of the word that [A-Z] matches
UpperCount(word) ==
  CASE word = "BUY" -> 3
    [] word = "NOW!!!" -> 3
    [] word = "Hi" -> 1
    [] OTHER -> 0

\* /[!?]{2,}/ matches inside the word
HasPunctuationRun(word) == word = "NOW!!!"

\* String.includes between a lower-case word of a text and a word of a
\* keyword: of the words used, each holds no keyword word but itself, and
\* "now!!!" begins with "now"
WordIncludes(word, part) == word = part
WordStartsWith(word, part) == word = part \/ (word = "now!!!" /\ part = "now")
WordEndsWith(word, part) == word = part

LowerWords(text) == [i \in DOMAIN text |-> ToLowerCase(text[i])]

\* text.toLowerCase().includes(keyword.toLowerCase())
Includes(text, keyword) ==
  LET lower == LowerWords(text)
      n == Len(keyword)
  IN  IF n = 1 THEN \E i \in DOMAIN lower : WordIncludes(lower[i], keyword[1])
      ELSE \E i \in 1..(Len(lower) - n + 1) :
              /\ WordEndsWith(lower[i], keyword[1])
              /\ \A k \in 2..(n - 1) : lower[i + k - 1] = keyword[k]
              /\ WordStartsWith(lower[i + n - 1], keyword[n])

\* text.length
TextLength(text) ==
  LET RECURSIVE Sum(_)
      Sum(i) == IF i = 0 THEN 0 ELSE Sum(i - 1) + WordLen(text[i])
  IN  IF text = <<>> THEN 0 ELSE Sum(Len(text)) + Len(text) - 1

\* (text.match(/[A-Z]/g) || []).length
UpperLength(text) ==
  LET RECURSIVE Sum(_)
      Sum(i) == IF i = 0 THEN 0 ELSE Sum(i - 1) + UpperCount(text[i])
  IN  Sum(Len(text))

\* [...new Set(array)]: the first occurrence of each element, in order
RECURSIVE Dedupe(_)
Dedupe(array) ==
  IF array = <<>> THEN <<>>
  ELSE LET front == Dedupe(SubSeq(array, 1, Len(array) - 1))
           last == array[Len(array)]
       IN  IF \E k \in DOMAIN front : front[k] = last THEN front
           ELSE Append(front, last)

\* this.inappropriateContent, in the order of Object.entries
inappropriateContent ==
  <<[category |-> "sexual",
     words |-> << <<"explicit">>, <<"nude">>, <<"naked">>, <<"sex">>, <<"sexual">>,
                  <<"porn">>, <<"xxx">>, <<"adult">>, <<"hookup">>, <<"dtf">>,
                  <<"fwb">>, <<"nsa">>, <<"casual">>, <<"bedroom">>, <<"intimate">> >>],
    [category |-> "offensive",
     words |-> << <<"hate">>, <<"stupid">>, <<"idiot">>, <<"moron">>, <<"loser">>,
                  <<"ugly">>, <<"fat">> >>],
    [category |-> "harassment",
     words |-> << <<"stalk">>, <<"follow", "home">>, <<"creep">>, <<"obsessed">>,
                  <<"crazy">>, <<"psycho">>, <<"bitch">>, <<"slut">>, <<"whore">>,
                  <<"kill", "yourself">>, <<"die">> >>],
    [category |-> "spam",
     words |-> << <<"buy", "now">>, <<"click", "here">>, <<"free", "money">>,
                  <<"get", "rich">>, <<"work", "from", "home">>,
                  <<"miracle", "cure">>, <<"weight", "loss">>, <<"viagra">>,
                  <<"bitcoin">>, <<"investment">> >>],
    [category |-> "personalInfo",
     words |-> << <<"address">>, <<"home", "address">>,
                  <<"where", "do", "you", "live">>, <<"phone", "number">>,
                  <<"cell", "phone">>, <<"mobile">>, <<"whatsapp">>, <<"telegram">>,
                  <<"snapchat">>, <<"instagram">>, <<"facebook">>,
                  <<"social", "security">>, <<"credit", "card">> >>]>>

\* this.inappropriateContent.spam
SpamKeywords == inappropriateContent[4].words

\* every (category, word) in the order the two forEach loops visit them
CategoryEntries(entry) ==
  [i \in DOMAIN entry.words |-> [category |-> entry.category, word |-> entry.words[i]]]

InappropriateEntries ==
  CategoryEntries(inappropriateContent[1]) \o CategoryEntries(inappropriateContent[2])
    \o CategoryEntries(inappropriateContent[3]) \o CategoryEntries(inappropriateContent[4])
    \o CategoryEntries(inappropriateContent[5])

detectInappropriateContent(text) ==
  LET found == SelectSeq(InappropriateEntries, LAMBDA entry : Includes(text, entry.word))
  IN  [violations |-> Dedupe([i \in DOMAIN found |-> found[i].category]),
       flaggedContent |-> Dedupe([i \in DOMAIN found |-> found[i].word]),
       confidence |-> IF found = <<>> THEN 0 ELSE 8]

\* Math.max(...Object.values(wordCounts)) for the words of text.split(/\s+/),
\* counted under their lower-case form in a plain object: the empty text has
\* the one word ""; the count of "constructor" starts from the function every
\* object inherits under that key, so its entry is a string and the maximum
\* is NaN
MaxRepeats(text) ==
  LET lower == LowerWords(text)
      Count(word) == Cardinality({i \in DOMAIN lower : lower[i] = word})
  IN  IF text = <<>> THEN Num(1)
      ELSE IF \E i \in DOMAIN lower : lower[i] = "constructor" THEN NaN
      ELSE Num(CHOOSE n \in 1..Len(lower) :
                  /\ \E i \in DOMAIN lower : Count(lower[i]) = n
                  /\ \A i \in DOMAIN lower : Count(lower[i]) <= n)

\* spamScore, in tenths
SpamScore(text) ==
  Len(SelectSeq(SpamKeywords, LAMBDA word : Includes(text, word))) * 2
    + (IF 2 * UpperLength(text) > TextLength(text) THEN 3 ELSE 0)
    + (IF \E i \in DOMAIN text : HasPunctuationRun(text[i]) THEN 2 ELSE 0)
    + (IF Lt(Num(3), MaxRepeats(text)) THEN 2 ELSE 0)

detectSpam(text) ==
  [isSpam |-> SpamScore(text) >= 6,
   flaggedContent |-> SelectSeq(SpamKeywords, LAMBDA word : Includes(text, word)),
   confidence |-> IF SpamScore(text) < 10 THEN SpamScore(text) ELSE 10]

checkCustomBlockedWords(text, customBlockedWords) ==
  SelectSeq(customBlockedWords, LAMBDA word : Includes(text, word))

generateSuggestions(violationTypes) ==
  LET Has(type) == \E k \in DOMAIN violationTypes : violationTypes[k] = type
  IN  (IF Has("phone_number")
       THEN <<"Remove phone numbers and use our secure messaging system instead",
              "Try our video calling feature for direct communication">> ELSE <<>>)
      \o (IF Has("sexual")
          THEN <<"Keep conversations respectful and appropriate",
                 "Focus on getting to know each other first">> ELSE <<>>)
      \o (IF Has("harassment")
          THEN <<"Be respectful and considerate in your messages",
                 "Treat others as you would like to be treated">> ELSE <<>>)
      \o (IF Has("spam")
          THEN <<"Write personalized messages instead of generic content",
                 "Avoid excessive capitalization and punctuation">> ELSE <<>>)

\* Math.max(maxConfidence, ...)
MaxOf(a, b) == IF a >= b THEN a ELSE b

\* Math.max(...phoneResult.map(m => m.confidence)) of a non-empty result
MaxConfidence(phoneResult) ==
  CHOOSE c \in {phoneResult[k].confidence : k \in DOMAIN phoneResult} :
     \A k \in DOMAIN phoneResult : phoneResult[k].confidence <= c

\* what each check of moderateContent adds: the violation types, the flagged
\* contents and the confidence of a check that triggered, nothing of one
\* that is switched off or did not trigger
Finding(triggered, types, flagged, confidence) ==
  IF triggered THEN [types |-> types, flagged |-> flagged, confidence |-> confidence]
  ELSE [types |-> <<>>, flagged |-> <<>>, confidence |-> 0]

PhoneFinding(text, config) ==
  LET phoneResult == detectPhoneNumbers(LowerWords(text), config.strictMode)
  IN  Finding(config.checkPhoneNumbers /\ phoneResult # <<>>,
              <<"phone_number">>,
              [k \in DOMAIN phoneResult |-> phoneResult[k].text],
              IF phoneResult = <<>> THEN 0 ELSE MaxConfidence(phoneResult))

InappropriateFinding(text, config) ==
  LET inappropriateResult == detectInappropriateContent(text)
  IN  Finding(config.checkInappropriateContent /\ inappropriateResult.violations # <<>>,
              inappropriateResult.violations, inappropriateResult.flaggedContent,
              inappropriateResult.confidence)

SpamFinding(text, config) ==
  LET spamResult == detectSpam(text)
  IN  Finding(config.checkSpam /\ spamResult.isSpam,
              <<"spam">>, spamResult.flaggedContent, spamResult.confidence)

CustomFinding(text, config) ==
  LET customResult == checkCustomBlockedWords(text, config.customBlockedWords)
  IN  Finding(customResult # <<>>, <<"custom_blocked">>, customResult, 9)

moderateContent(text, config) ==
  LET phone == PhoneFinding(text, config)
      inappropriate == InappropriateFinding(text, config)
      spam == SpamFinding(text, config)
      custom == CustomFinding(text, config)
      violationTypes == phone.types \o inappropriate.types \o spam.types \o custom.types
      flaggedContent == phone.flagged \o inappropriate.flagged \o spam.flagged
                          \o custom.flagged
  IN  [isViolation |-> violationTypes # <<>>,
       violationType |-> violationTypes,
       confidence |-> MaxOf(MaxOf(MaxOf(MaxOf(0, phone.confidence),
                                        inappropriate.confidence),
                                  spam.confidence),
                            custom.confidence),
       flaggedContent |-> Dedupe(flaggedContent),
       suggestions |-> generateSuggestions(violationTypes)]

\* the constructor's defaults
DefaultConfig ==
  [strictMode |-> FALSE, checkPhoneNumbers |-> TRUE, checkInappropriateContent |-> TRUE,
   checkSpam |-> TRUE, customBlockedWords |-> <<>>]

\* the configurations moderators are constructed with
ModerationConfigs ==
  {DefaultConfig,
   Merge(DefaultConfig, [strictMode |-> TRUE]),
   Merge(DefaultConfig, [customBlockedWords |-> << <<"hi">>, <<"sex">> >>]),
   Merge(DefaultConfig, [checkInappropriateContent |-> FALSE]),
   Merge(DefaultConfig, [checkPhoneNumbers |-> FALSE, checkSpam |-> FALSE])}

\* a moderator has been constructed and a text is at hand
InitModeration ==
  /\ users = <<>> /\ currentUserId = 1
  /\ swipes = <<>> /\ currentSwipeId = 1
  /\ matches = <<>> /\ currentMatchId = 1
  /\ messages = <<>> /\ currentMessageId = 1
  /\ blindDates = <<>> /\ currentBlindDateId = 1
  /\ payments = <<>> /\ currentPaymentId = 1
  /\ violations = <<>> /\ currentViolationId = 1
  /\ profiles = <<>> /\ currentProfileId = 1
  /\ arStories = <<>> /\ currentArStoryId = 1
  /\ created = [type \in EntityTypes |-> <<>>]
  /\ requests = <<>>
  /\ manager = NewManager /\ invocations = <<>>
  /\ timers = <<>>
  /\ now = 0 /\ ticks = 0
  /\ phoneNumberRegexLastIndex = 0
  /\ phoneWordRegexLastIndex = 0
  /\ \E text \in ModerationTexts, config \in ModerationConfigs :
        res = [op |-> "text", status |-> 0, text |-> text, config |-> config]

ModerateContentCall ==
  /\ res.op = "text"
  /\ res' = [op |-> "moderateContent", status |-> 0, text |-> res.text,
             config |-> res.config, result |-> moderateContent(res.text, res.config)]
  /\ UNCHANGED <<userVars, swipeVars, messageVars, blindDateVars, paymentVars,
                 clockVars, offRouteVars>>

DetectSpamCall ==
  /\ res.op = "text"
  /\ res' = [op |-> "detectSpam", status |-> 0, text |-> res.text,
             config |-> res.config, result |-> detectSpam(res.text)]
  /\ UNCHANGED <<userVars, swipeVars, messageVars, blindDateVars, paymentVars,
                 clockVars, offRouteVars>>

NextModeration == ModerateContentCall \/ DetectSpamCall

SpecModeration == InitModeration /\ [][NextModeration]_vars

(***************************************************************************)
(* Properties of moderateContent and detectSpam (SpecModeration)           *)
(***************************************************************************)
NoDuplicates(array) ==
  \A i \in DOMAIN array, j \in DOMAIN array : array[i] = array[j] => i = j

\* the confidences of the checks that triggered on the text
TriggeredConfidences(text, config) ==
  {finding.confidence :
     finding \in {f \in {PhoneFinding(text, config), InappropriateFinding(text, config),
                         SpamFinding(text, config), CustomFinding(text, config)} :
                    f.types # <<>>}}

\* C21: for every text, the verdict of moderateContent has isViolation true
\* exactly when its violation-type list is non-empty, a confidence equal to
\* the maximum confidence of the sub-checks that triggered and within [0,1],
\* a violation-type list without duplicates, and a flagged-content list
\* without duplicates.
C21_VerdictIsConsistent ==
  res.op = "moderateContent"
     => LET verdict == res.result
            triggered == TriggeredConfidences(res.text, res.config)
        IN  /\ verdict.isViolation <=> verdict.violationType # <<>>
            /\ verdict.confidence >= 0 /\ verdict.confidence <= 10
            /\ triggered # {} => /\ verdict.confidence \in triggered
                                 /\ \A c \in triggered : c <= verdict.confidence
            /\ triggered = {} => verdict.confidence = 0
            /\ NoDuplicates(verdict.violationType)
            /\ NoDuplicates(verdict.flaggedContent)

\* the words that occur more than 3 times in the text, case-insensitively
RepeatedWords(text) ==
  {ToLowerCase(text[i]) : i \in DOMAIN text}
     \cap {word \in {ToLowerCase(text[i]) : i \in DOMAIN text} :
             Cardinality({i \in DOMAIN text : ToLowerCase(text[i]) = word}) > 3}

\* the cumulative score as the claim states it, in tenths
C22_Score(text) ==
  2 * Cardinality({k \in DOMAIN SpamKeywords : Includes(text, SpamKeywords[k])})
    + (IF 2 * UpperLength(text) > TextLength(text) THEN 3 ELSE 0)
    + (IF \E i \in DOMAIN text : HasPunctuationRun(text[i]) THEN 2 ELSE 0)
    + (IF RepeatedWords(text) # {} THEN 2 ELSE 0)

\* C22: spam detection reports isSpam exactly when the cumulative score is
\* >= 0.6 (0.2 per distinct spam keyword present, 0.3 for more than 50%
\* uppercase letters, 0.2 for a run of two or more '!'/'?', 0.2 for a word
\* that occurs more than 3 times case-insensitively); the confidence is
\* min(score, 1.0); 'BUY NOW!!! BUY NOW!!! BUY NOW!!! BUY NOW!!!' is spam.
C22_SpamScore ==
  res.op = "detectSpam"
     => /\ res.result.isSpam <=> C22_Score(res.text) >= 6
        /\ res.result.confidence
              = (IF C22_Score(res.text) < 10 THEN C22_Score(res.text) ELSE 10)
        /\ res.text = SpamExample => res.result.isSpam

(***************************************************************************)
(* The nearby query of the repository (SpecNearby): users register with    *)
(* or without coordinates, and getUsersNearby is called with a centre, a   *)
(* radius in km and a list of ids to leave out.                            *)
(***************************************************************************)
MaxLocated == 3   \* users stored where the nearby query is followed

\* the coordinates a register body carries: none, an empty longitude, or a
\* point
Locations ==
  {<<>>,
   [latitude |-> "0.00", longitude |-> ""],
   [latitude |-> "0.00", longitude |-> "0.00"],
   [latitude |-> "0.05", longitude |-> "0.00"],
   [latitude |-> "1.00", longitude |-> "0.00"]}

RegisterLocated ==
  /\ \E location \in Locations :
        PostRegisterWithin(Merge([email |-> <<"user", currentUserId>>,
                                  username |-> <<"user", currentUserId>>], location),
                           MaxLocated)
  /\ UNCHANGED <<swipeVars, messageVars, blindDateVars, paymentVars, clockVars,
                 offRouteVars>>

GetUsersNearbyCall ==
  /\ \E lat \in {"0.00", "1.00"}, radius \in {10, 111},
        excludeIds \in SUBSET (1..MaxLocated) :
        res' = [op |-> "getUsersNearby", status |-> 0, lat |-> lat, lng |-> "0.00",
                radius |-> radius, excludeIds |-> excludeIds,
                result |-> getUsersNearby(users, ParseDegrees(lat), ParseDegrees("0.00"),
                                          radius, excludeIds)]
  /\ UNCHANGED <<userVars, swipeVars, messageVars, blindDateVars, paymentVars,
                 clockVars, offRouteVars>>

NextNearby == RegisterLocated \/ GetUsersNearbyCall

SpecNearby == Init /\ [][NextNearby]_vars

(***************************************************************************)
(* Properties of the nearby query (SpecNearby)                             *)
(***************************************************************************)
\* the user has a stored latitude and a stored longitude
HasCoordinates(user) ==
  /\ "latitude" \in DOMAIN user /\ user.latitude # ""
  /\ "longitude" \in DOMAIN user /\ user.longitude # ""

\* the square of the planar distance between the centre and the user, in
\* units of (1/100 km)^2: degrees are held in hundredths, and a degree is
\* 111 km
C23_Distance2(lat, lng, user) ==
  LET dLat == ParseDegrees(lat).v - ParseDegrees(user.latitude).v
      dLng == ParseDegrees(lng).v - ParseDegrees(user.longitude).v
  IN  (dLat * dLat + dLng * dLng) * (111 * 111)

C23_Exactly ==
  res.op = "getUsersNearby"
     => res.result
          = {k \in DOMAIN users :
               /\ k \notin res.excludeIds
               /\ HasCoordinates(users[k])
               /\ C23_Distance2(res.lat, res.lng, users[k])
                    <= (res.radius * 100) * (res.radius * 100)}

C23_Example ==
  (res.op = "getUsersNearby" /\ res.lat = "0.00" /\ res.lng = "0.00" /\ res.radius = 10)
     => \A k \in (DOMAIN users) \ res.excludeIds :
           HasCoordinates(users[k])
              => /\ (users[k].latitude = "0.05" /\ users[k].longitude = "0.00")
                       => k \in res.result
                 /\ (users[k].latitude = "1.00" /\ users[k].longitude = "0.00")
                       => k \notin res.result

MaxRequests == 2   \* requests followed call by call

\* requests are numbered in the order they arrive
NextRequest == Cardinality(DOMAIN requests) + 1

\* the handler of request r is waiting for a repository call to return
AwaitRes(r) == [op |-> "await", status |-> 0, request |-> r]

\* what no handler of a blind-date create or join writes
blindDateRaceFrame ==
  <<currentUserId, swipeVars, messageVars, paymentVars, clockVars, profileVars,
    arStoryVars, created, managerVars>>

\* mutant of LocalBalance: the balance is read again from the store
LocalBalance_Reread(request, userMap) == userMap[request.userId].walletBalance

\* parseFloat(user.walletBalance), user being the handler's local variable
LocalBalance(request, userMap) == (CHOOSE user \in request.user : TRUE).walletBalance

\* POST /api/blind-dates up to its first await: storage.getUser
BeginCreateBlindDate(r, blindDateData) ==
  /\ r = NextRequest /\ r <= MaxRequests
  /\ requests' = MapSet(requests, r,
                        [op |-> "createBlindDate", pc |-> "createBlindDate", status |-> 0,
                         userId |-> blindDateData.user1Id,
                         amount |-> blindDateData.amount, blindDateId |-> Null,
                         user |-> getUser(users, blindDateData.user1Id),
                         blindDate |-> {}])
  /\ res' = AwaitRes(r)
  /\ UNCHANGED <<users, blindDateVars, blindDateRaceFrame>>

\* the balance check, then storage.createBlindDate
CreateBlindDateCall(r) ==
  /\ r \in DOMAIN requests
  /\ requests[r].op = "createBlindDate" /\ requests[r].pc = "createBlindDate"
  /\ IF \/ requests[r].user = {}
        \/ Lt(LocalBalance(requests[r], users), ParseFloat(requests[r].amount))
     THEN /\ requests' = [requests EXCEPT ![r].pc = "done", ![r].status = 400]
          /\ res' = BlindDateRes("createBlindDate", 400, requests[r].userId, Null)
          /\ UNCHANGED blindDateVars
     ELSE /\ blindDates' = createBlindDate(blindDates, currentBlindDateId,
                              [user1Id |-> requests[r].userId,
                               amount |-> requests[r].amount])
          /\ currentBlindDateId' = currentBlindDateId + 1
          /\ requests' = [requests EXCEPT ![r].pc = "updateUser",
                                          ![r].blindDateId = currentBlindDateId]
          /\ res' = AwaitRes(r)
  /\ UNCHANGED <<users, blindDateRaceFrame>>

\* POST /api/blind-dates/:id/join up to its first await: storage.getUser
BeginJoinBlindDate(r, blindDateId, userId) ==
  /\ r = NextRequest /\ r <= MaxRequests
  /\ requests' = MapSet(requests, r,
                        [op |-> "join", pc |-> "getBlindDate", status |-> 0,
                         userId |-> userId, amount |-> "", blindDateId |-> blindDateId,
                         user |-> getUser(users, userId), blindDate |-> {}])
  /\ res' = AwaitRes(r)
  /\ UNCHANGED <<users, blindDateVars, blindDateRaceFrame>>

\* storage.getBlindDate
JoinGetBlindDateCall(r) ==
  /\ r \in DOMAIN requests
  /\ requests[r].op = "join" /\ requests[r].pc = "getBlindDate"
  /\ requests' = [requests EXCEPT
                    ![r].pc = "matchBlindDate",
                    ![r].blindDate = getBlindDate(blindDates, requests[r].blindDateId)]
  /\ res' = AwaitRes(r)
  /\ UNCHANGED <<users, blindDateVars, blindDateRaceFrame>>

\* the two checks, then storage.matchBlindDate
JoinMatchBlindDateCall(r) ==
  /\ r \in DOMAIN requests
  /\ requests[r].op = "join" /\ requests[r].pc = "matchBlindDate"
  /\ IF requests[r].user = {} \/ requests[r].blindDate = {}
     THEN /\ requests' = [requests EXCEPT ![r].pc = "done", ![r].status = 404]
          /\ res' = BlindDateRes("join", 404, requests[r].userId, requests[r].blindDateId)
          /\ UNCHANGED blindDateVars
     ELSE LET blindDate == CHOOSE b \in requests[r].blindDate : TRUE
          IN  IF Lt(LocalBalance(requests[r], users), ParseFloat(blindDate.amount))
              THEN /\ requests' = [requests EXCEPT ![r].pc = "done", ![r].status = 400]
                   /\ res' = BlindDateRes("join", 400, requests[r].userId,
                                          requests[r].blindDateId)
                   /\ UNCHANGED blindDateVars
              ELSE /\ blindDates' = matchBlindDate(blindDates, requests[r].blindDateId,
                                                   requests[r].userId, now)
                   /\ UNCHANGED currentBlindDateId
                   /\ requests' = [requests EXCEPT ![r].pc = "updateUser",
                                                   ![r].amount = blindDate.amount]
                   /\ res' = AwaitRes(r)
  /\ UNCHANGED <<users, blindDateRaceFrame>>

\* storage.updateUser(userId, {walletBalance}) of either handler, and the
\* response
DebitCall(r) ==
  /\ r \in DOMAIN requests
  /\ requests[r].op \in {"createBlindDate", "join"} /\ requests[r].pc = "updateUser"
  /\ users' = updateUser(users, requests[r].userId, "walletBalance",
                         Sub(LocalBalance(requests[r], users),
                             ParseFloat(requests[r].amount)))
  /\ requests' = [requests EXCEPT ![r].pc = "done", ![r].status = 200]
  /\ res' = BlindDateRes(requests[r].op, 200, requests[r].userId, requests[r].blindDateId)
  /\ UNCHANGED <<blindDateVars, blindDateRaceFrame>>

BeginBlindDateRequest ==
  \/ \E user1Id \in UserIds :
        BeginCreateBlindDate(NextRequest, [user1Id |-> user1Id, amount |-> "1.00"])
  \/ \E blindDateId \in 1..MaxRequests, userId \in UserIds :
        BeginJoinBlindDate(NextRequest, blindDateId, userId)

BlindDateRequestStep ==
  \E r \in 1..MaxRequests :
     \/ CreateBlindDateCall(r)
     \/ JoinGetBlindDateCall(r)
     \/ JoinMatchBlindDateCall(r)
     \/ DebitCall(r)

\* PUT /api/users/:id: the body is merged over the stored user
PutUsers(id, updates) ==
  LET call == UpdateEntity(users, id, updates)
  IN  /\ users' = call.map
      /\ UNCHANGED currentUserId
      /\ res' = [op |-> "putUser", status |-> IF call.result = {} THEN 404 ELSE 200,
                 id |-> id]

\* a PUT that sets a wallet to 1.00
SetWalletRequest ==
  /\ \E id \in UserIds : PutUsers(id, [walletBalance |-> ParseFloat("1.00")])
  /\ UNCHANGED <<swipeVars, messageVars, blindDateVars, paymentVars, clockVars,
                 offRouteVars>>

\* register, wallets set to 1.00, and blind-date creates and joins that run
\* side by side
NextBlindDateRace ==
  \/ RegisterRequest({"ann"})
  \/ SetWalletRequest
  \/ BeginBlindDateRequest
  \/ BlindDateRequestStep

SpecBlindDateRace == Init /\ [][NextBlindDateRace]_vars

(***************************************************************************)
(* Properties of concurrent blind-date requests (SpecBlindDateRace)        *)
(***************************************************************************)
\* the step was the last call of request r, answered with status
Finishes(r, status) ==
  /\ r \in DOMAIN requests /\ requests[r].pc # "done"
  /\ requests'[r].pc = "done" /\ requests'[r].status = status

\* the balance request r read when it arrived
ReadBalance(r) == (CHOOSE user \in requests[r].user : TRUE).walletBalance

C24_CheckedOnArrival ==
  \A r \in DOMAIN requests :
     (requests[r].op \in {"createBlindDate", "join"} /\ requests[r].status = 200)
        => /\ requests[r].user # {}
           /\ ~Lt(ReadBalance(r), ParseFloat(requests[r].amount))

C24_DebitFromReadBalance ==
  \A r \in DOMAIN requests :
     (requests[r].op \in {"createBlindDate", "join"} /\ Finishes(r, 200))
        => /\ users'[requests[r].userId].walletBalance
                = Sub(ReadBalance(r), ParseFloat(requests[r].amount))
           /\ \A q \in (DOMAIN requests) \ {r} :
                 (/\ requests[q].status = 200
                  /\ requests[q].userId = requests[r].userId
                  /\ ReadBalance(q) = ReadBalance(r)
                  /\ requests[q].amount = requests[r].amount)
                    => users'[requests[r].userId].walletBalance
                          = Sub(ReadBalance(q), ParseFloat(requests[q].amount))

\* C24: the balance check, the BlindDate write and the wallet debit of a
\* blind-date create or join are separate repository calls with no lock.  A
\* request that succeeds was checked against the balance it read on arrival,
\* and its debit writes that balance minus the amount, whatever the wallet
\* holds by then: after two requests of one user that read the same balance,
\* the second debit writes what the first wrote, so the wallet is debited by
\* one amount only.  Both succeeding on funds for one is reachable (the
\* witness).
C24_LostDebit == [](C24_CheckedOnArrival) /\ [][C24_DebitFromReadBalance]_vars

\* two creates of 1.00 by user 1 arrived while the wallet held 1.00, each
\* before the other's debit, and have both been answered 200: two blind dates
\* are stored and the wallet is at 0
C24_Witness ==
  /\ DOMAIN requests = {1, 2}
  /\ \A r \in {1, 2} :
        /\ requests[r].op = "createBlindDate" /\ requests[r].userId = 1
        /\ requests[r].pc = "done" /\ requests[r].status = 200
        /\ ReadBalance(r) = Num(1)
  /\ DOMAIN blindDates = {1, 2}
  /\ blindDates[1].user1Id = 1 /\ blindDates[2].user1Id = 1
  /\ users[1].walletBalance = Num(0)

(***************************************************************************)
(* Concurrent swipe requests (SpecSwipeRace): the handler of POST          *)
(* /api/swipe from one await to the next.                                  *)
(***************************************************************************)
\* what no handler of a swipe writes
swipeRaceFrame ==
  <<userVars, messageVars, blindDateVars, paymentVars, clockVars, profileVars,
    arStoryVars, created, managerVars>>

\* the swipe data of the request
SwipeDataOf(request) ==
  [swiperId |-> request.swiperId, swipedId |-> request.swipedId,
   action |-> request.action]

\* mutant of ReciprocalSwipe: the result of the duplicate check is taken for
\* the reciprocal swipe
ReciprocalSwipe_Existing(swipeMap, request) == request.existingSwipe

\* storage.getSwipe(swipeData.swipedId, swipeData.swiperId)
ReciprocalSwipe(swipeMap, request) ==
  getSwipe(swipeMap, request.swipedId, request.swiperId)

\* POST /api/swipe up to its first await: storage.getSwipe for the duplicate
\* check
BeginSwipe(r, swipeData) ==
  /\ r = NextRequest /\ r <= MaxRequests
  /\ requests' = MapSet(requests, r,
                        [op |-> "swipe", pc |-> "createSwipe", status |-> 0,
                         swiperId |-> swipeData.swiperId,
                         swipedId |-> swipeData.swipedId, action |-> swipeData.action,
                         existingSwipe |-> getSwipe(swipes, swipeData.swiperId,
                                                    swipeData.swipedId),
                         reciprocalSwipe |-> {}])
  /\ res' = AwaitRes(r)
  /\ UNCHANGED <<swipeVars, swipeRaceFrame>>

\* the duplicate check, then storage.createSwipe
SwipeCreateCall(r) ==
  /\ r \in DOMAIN requests
  /\ requests[r].op = "swipe" /\ requests[r].pc = "createSwipe"
  /\ IF requests[r].existingSwipe # {}
     THEN /\ requests' = [requests EXCEPT ![r].pc = "done", ![r].status = 400]
          /\ res' = SwipeRes(400, SwipeDataOf(requests[r]))
          /\ UNCHANGED <<swipes, currentSwipeId>>
     ELSE /\ swipes' = createSwipe(swipes, currentSwipeId, SwipeDataOf(requests[r]))
          /\ currentSwipeId' = currentSwipeId + 1
          /\ requests' = [requests EXCEPT ![r].pc = "getSwipe"]
          /\ res' = AwaitRes(r)
  /\ UNCHANGED <<matches, currentMatchId, swipeRaceFrame>>

\* for a like, storage.getSwipe for the reciprocal swipe; the response
\* otherwise
SwipeReciprocalCall(r) ==
  /\ r \in DOMAIN requests
  /\ requests[r].op = "swipe" /\ requests[r].pc = "getSwipe"
  /\ IF requests[r].action = "like"
     THEN /\ requests' = [requests EXCEPT
                            ![r].pc = "createMatch",
                            ![r].reciprocalSwipe = ReciprocalSwipe(swipes, requests[r])]
          /\ res' = AwaitRes(r)
     ELSE /\ requests' = [requests EXCEPT ![r].pc = "done", ![r].status = 200]
          /\ res' = SwipeRes(200, SwipeDataOf(requests[r]))
  /\ UNCHANGED <<swipeVars, swipeRaceFrame>>

\* storage.createMatch when the reciprocal swipe is a like, and the response
SwipeMatchCall(r) ==
  /\ r \in DOMAIN requests
  /\ requests[r].op = "swipe" /\ requests[r].pc = "createMatch"
  /\ IF \E reciprocalSwipe \in requests[r].reciprocalSwipe :
           reciprocalSwipe.action = "like"
     THEN /\ matches' = createMatch(matches, currentMatchId,
                                    [user1Id |-> requests[r].swiperId,
                                     user2Id |-> requests[r].swipedId])
          /\ currentMatchId' = currentMatchId + 1
     ELSE UNCHANGED <<matches, currentMatchId>>
  /\ requests' = [requests EXCEPT ![r].pc = "done", ![r].status = 200]
  /\ res' = SwipeRes(200, SwipeDataOf(requests[r]))
  /\ UNCHANGED <<swipes, currentSwipeId, swipeRaceFrame>>

BeginSwipeRequest ==
  \E swiperId \in UserIds, swipedId \in UserIds, action \in SwipeActions :
     BeginSwipe(NextRequest,
                [swiperId |-> swiperId, swipedId |-> swipedId, action |-> action])

SwipeRequestStep ==
  \E r \in 1..MaxRequests :
     \/ SwipeCreateCall(r)
     \/ SwipeReciprocalCall(r)
     \/ SwipeMatchCall(r)

NextSwipeRace == BeginSwipeRequest \/ SwipeRequestStep

SpecSwipeRace == Init /\ [][NextSwipeRace]_vars

(***************************************************************************)
(* Properties of concurrent swipe requests (SpecSwipeRace)                 *)
(***************************************************************************)
\* the swipe requests on the pair {a, b}
PairRequests(a, b) ==
  {r \in DOMAIN requests :
     requests[r].op = "swipe" /\ {requests[r].swiperId, requests[r].swipedId} = {a, b}}

\* request r is a like of a on b and has been answered
FinishedLike(r, a, b) ==
  /\ requests[r].swiperId = a /\ requests[r].swipedId = b
  /\ requests[r].action = "like"
  /\ requests[r].pc = "done"

\* C25: a mutual like is never lost to a race: for distinct users A and B
\* with no prior swipes, under every interleaving at repository-call
\* boundaries of the two swipe requests A->B 'like' and B->A 'like', at least
\* one Match for {A,B} exists once both requests have finished.
C25_MutualLikeNotLost ==
  \A a \in UserIds, b \in UserIds :
     (/\ a # b
      /\ \E r1 \in DOMAIN requests, r2 \in DOMAIN requests :
            /\ PairRequests(a, b) = {r1, r2}
            /\ FinishedLike(r1, a, b)
            /\ FinishedLike(r2, b, a))
        => MatchesOf(matches, a, b) # {}

\* the two likes of users 1 and 2 ran side by side: each stored its swipe
\* before the other looked for it, both found the other's like, and each
\* created a Match
C25_Witness ==
  /\ DOMAIN requests = {1, 2}
  /\ FinishedLike(1, 1, 2) /\ FinishedLike(2, 2, 1)
  /\ requests[1].reciprocalSwipe # {} /\ requests[2].reciprocalSwipe # {}
  /\ Cardinality(MatchesOf(matches, 1, 2)) = 2

(***************************************************************************)
(* Properties of the stored matches (SpecSwipe)                            *)
(***************************************************************************)
\* C26: no Match ever pairs a user with themselves: after any sequence of
\* swipe requests, including requests whose swiperId equals their swipedId,
\* every stored Match has user1Id different from user2Id.
C26_NoSelfMatch ==
  \A id \in DOMAIN matches : matches[id].user1Id # matches[id].user2Id

(***************************************************************************)
(* Login and suspension (SpecSuspension): register with a password, login, *)
(* message sending, fine payments and their settlement, over a day.        *)
(***************************************************************************)
Passwords == {"secret", "guess"}

LoginRes(status, email, password) ==
  [op |-> "login", status |-> status, email |-> email, password |-> password]

\* user.suspendedUntil && user.suspendedUntil > new Date()
LoginSuspended(user, time) ==
  user.suspendedUntil # Null /\ user.suspendedUntil > time

\* POST /api/login
PostLogin(email, password) ==
  LET user == getUserByEmail(users, email)
  IN  IF user = {} \/ (\E u \in user : u.password # password)
      THEN res' = LoginRes(401, email, password)
      ELSE IF \E u \in user : LoginSuspended(u, now)
      THEN res' = LoginRes(403, email, password)
      ELSE res' = LoginRes(200, email, password)

LoginRequest ==
  /\ \E email \in Emails, password \in Passwords : PostLogin(email, password)
  /\ UNCHANGED <<userVars, swipeVars, messageVars, blindDateVars, paymentVars,
               clockVars, offRouteVars>>

\* POST /api/register with a body that carries the password
RegisterWithPassword ==
  /\ \E email \in Emails :
        PostRegister([email |-> email, username |-> "ann", password |-> "secret"])
  /\ UNCHANGED <<swipeVars, messageVars, blindDateVars, paymentVars, clockVars,
               offRouteVars>>

NextSuspension ==
  \/ RegisterWithPassword
  \/ LoginRequest
  \/ MessageRequestOf({<<"hi">>, <<"five">>})
  \/ PaymentRequest({"fine"}, {"1.00"})
  \/ PaymentTimerElapses
  \/ DayElapses
  \/ SettlePayment

SpecSuspension == Init /\ [][NextSuspension]_vars

(***************************************************************************)
(* Properties of login and suspension (SpecSuspension)                     *)
(***************************************************************************)
\* the suspendedUntil of user u lies in the future
Suspended(u) ==
  u \in DOMAIN users /\ users[u].suspendedUntil # Null /\ users[u].suspendedUntil > now

\* the time the payment whose timer is set was made
PaymentMadeAt(id) == timers[id] - PaymentDelayMs

\* the time the suspension of user u began
SuspensionBegan(u) == users[u].suspendedUntil - DayMs

\* a login with the credentials of a suspended user is answered 403
C27_LoginRejected ==
  /\ res'.op = "login"
  /\ \E u \in DOMAIN users :
        /\ users[u].email = res'.email /\ users[u].password = res'.password
        /\ Suspended(u)
  => res'.status = 403

\* a suspension ends by its window elapsing or by the settlement of a fine
\* the user paid once the suspension had begun
C27_EndsOnly ==
  \A u \in DOMAIN users :
     Suspended(u) /\ ~Suspended(u)'
       => \/ now' >= users[u].suspendedUntil
          \/ /\ res'.op = "settle"
             /\ payments[res'.id].type = "fine"
             /\ payments[res'.id].userId = u
             /\ PaymentMadeAt(res'.id) >= SuspensionBegan(u)

\* C27: while a user's suspendedUntil lies in the future, login for that user
\* is rejected with 'Account suspended'; a suspension set by a message
\* violation ends only when its 24-hour window elapses or when a fine payment
\* that this user made after the suspension began is settled.
C27_Suspension == [][C27_LoginRejected /\ C27_EndsOnly]_vars

(***************************************************************************)
(* The schedule of a blind date (SpecSchedule): register, wallets set to   *)
(* 1.00, blind-date create and join, over a day.                           *)
(***************************************************************************)
NextSchedule ==
  \/ RegisterRequest({"ann"})
  \/ SetWalletRequest
  \/ CreateBlindDateRequest(PositiveAmountStrings)
  \/ JoinBlindDateRequest
  \/ DayElapses

SpecSchedule == Init /\ [][NextSchedule]_vars

(***************************************************************************)
(* Properties of the schedule of a blind date (SpecSchedule)               *)
(***************************************************************************)
\* a pending blind date has no scheduledFor
C28_NullWhilePending ==
  \A id \in DOMAIN blindDates :
     blindDates[id].status = "pending" => blindDates[id].scheduledFor = Null

\* a successful join sets scheduledFor to the time of the join plus 24 hours
C28_SetByJoin ==
  (res'.op = "join" /\ res'.status = 200)
     => blindDates'[res'.id].scheduledFor = now + DayMs

\* a scheduledFor that is set stays as it is
C28_NeverChanged ==
  \A id \in DOMAIN blindDates :
     blindDates[id].scheduledFor # Null
       => blindDates'[id].scheduledFor = blindDates[id].scheduledFor

\* C28: a BlindDate's scheduledFor is null for as long as it is pending; a
\* successful join sets it to the time of that join plus 24 hours, and it is
\* never changed afterwards.
C28_ScheduledOnce ==
  [](C28_NullWhilePending) /\ [][C28_SetByJoin /\ C28_NeverChanged]_vars

(***************************************************************************)
(* Available blind dates (SpecAvailable).  Blind dates are created one     *)
(* after the other, each with a centre; the second is owned by user 2 and  *)
(* the third lies a degree to the north.  The query parameters are         *)
(* strings; the result of a query is held as the set of the ids of the     *)
(* blind dates it lists.                                                   *)
(***************************************************************************)
MaxPosted == 101      \* blind dates stored where the available query is followed

\* Array.from({ length: 100 }, ...): the ids the handler looks up
AvailableScanLength == 100

\* parseInt of a query parameter
ParseInt(str) ==
  CASE str = "1" -> 1
    [] str = "2" -> 2
    [] str = "3" -> 3
    [] str = "10" -> 10
    [] str = "150" -> 150

\* the ids of the blind dates getBlindDate(i + 1) finds
ScannedBlindDates(blindDateMap) ==
  {blindDate.id : blindDate \in UNION {getBlindDate(blindDateMap, i) :
                                          i \in 1..AvailableScanLength}}

AvailableRes(status, query, result) ==
  [op |-> "available", status |-> status, userId |-> query.userId,
   lat |-> query.lat, lng |-> query.lng, radius |-> query.radius,
   result |-> result]

\* GET /api/blind-dates/available
GetBlindDatesAvailable(query) ==
  IF \/ ~Truthy(query, "userId") \/ ~Truthy(query, "lat")
     \/ ~Truthy(query, "lng") \/ ~Truthy(query, "radius")
  THEN res' = AvailableRes(400, query, {})
  ELSE IF getUser(users, ParseInt(query.userId)) = {}
  THEN res' = AvailableRes(404, query, {})
  ELSE LET user == users[ParseInt(query.userId)]
           availableBlindDates ==
             {id \in ScannedBlindDates(blindDates) :
                /\ blindDates[id].status = "pending"
                /\ blindDates[id].user1Id # user.id
                /\ WithinRadius(ParseDegrees(query.lat), ParseDegrees(query.lng),
                                ParseDegrees(blindDates[id].centerLat),
                                ParseDegrees(blindDates[id].centerLng),
                                ParseInt(query.radius))}
       IN  res' = AvailableRes(200, query, availableBlindDates)

\* the body of the request that creates the blind date which will get this id
PostedBlindDate(id) ==
  [user1Id |-> IF id = 2 THEN 2 ELSE 1, amount |-> "1.00",
   centerLat |-> IF id = 3 THEN "1.00" ELSE "0.00", centerLng |-> "0.00"]

PostNextBlindDate ==
  /\ PostBlindDatesWithin(PostedBlindDate(currentBlindDateId), MaxPosted)
  /\ UNCHANGED <<currentUserId, swipeVars, messageVars, paymentVars, clockVars,
                 offRouteVars>>

AvailableRequest ==
  /\ \E userId \in {"1", "2", "3"}, lat \in {"", "0.00"}, radius \in {"10", "150"} :
        GetBlindDatesAvailable([userId |-> userId, lat |-> lat, lng |-> "0.00",
                                radius |-> radius])
  /\ UNCHANGED <<userVars, swipeVars, messageVars, blindDateVars, paymentVars,
                 clockVars, offRouteVars>>

NextAvailable ==
  \/ RegisterRequest({"ann"})
  \/ SetWalletRequest
  \/ PostNextBlindDate
  \/ JoinBlindDateRequest
  \/ AvailableRequest

SpecAvailable == Init /\ [][NextAvailable]_vars

(***************************************************************************)
(* Properties of the available blind dates (SpecAvailable)                 *)
(***************************************************************************)
\* the square of the planar distance between the query's position and the
\* centre of the blind date, in units of (1/100 km)^2
C29_Distance2(lat, lng, blindDate) ==
  LET dLat == ParseDegrees(lat).v - ParseDegrees(blindDate.centerLat).v
      dLng == ParseDegrees(lng).v - ParseDegrees(blindDate.centerLng).v
  IN  (dLat * dLat + dLng * dLng) * (111 * 111)

\* C29: the available-blind-dates query for user U at (lat, lng) with a
\* radius returns exactly the stored blind dates that have status 'pending',
\* are not owned by U (user1Id != U) and whose centre lies within the radius
\* by the planar distance, whatever the blind date's id and however many
\* blind dates have been created.
C29_ExactlyAvailable ==
  (res.op = "available" /\ res.status = 200)
     => res.result
          = {id \in DOMAIN blindDates :
               /\ blindDates[id].status = "pending"
               /\ blindDates[id].user1Id # ParseInt(res.userId)
               /\ C29_Distance2(res.lat, res.lng, blindDates[id])
                    <= (ParseInt(res.radius) * 100) * (ParseInt(res.radius) * 100)}

(***************************************************************************)
(* WebRTCManager (SpecCall).  peerConnection, localStream and remoteStream *)
(* are null or a reference; which object a reference points to is not      *)
(* followed.  An asynchronous method is one step up to its first await on  *)
(* the browser (the camera, the peer connection) and one step for each     *)
(* stretch up to the next such await; the awaited promise may resolve,     *)
(* reject or stay pending.  The message a step hands to                    *)
(* sendSignalingMessage is reported in res.                                *)
(***************************************************************************)
MaxInvocations == 2   \* asynchronous methods of the manager started

\* a reference to an object
Reference == 1

MatchIds == {1}

CallStates == {"idle", "calling", "receiving", "connected", "ended"}

SignalTypes == {"offer", "answer", "candidate", "hangup"}

callFrame ==
  <<userVars, swipeVars, messageVars, blindDateVars, paymentVars, clockVars,
    profileVars, arStoryVars, created, requests>>

CallRes(op, signal) == [op |-> op, status |-> 0, signal |-> signal]

NextInvocation == Cardinality(DOMAIN invocations) + 1

setState(m, state) == [m EXCEPT !.callState = state]

cleanup(m) ==
  [m EXCEPT !.localStream = Null, !.peerConnection = Null, !.remoteStream = Null,
            !.matchId = Null]

createPeerConnection(m) == [m EXCEPT !.peerConnection = Reference]

\* startCall up to navigator.mediaDevices.getUserMedia
StartCall(matchId) ==
  /\ NextInvocation <= MaxInvocations
  /\ manager' = setState([manager EXCEPT !.matchId = matchId, !.isInitiator = TRUE],
                         "calling")
  /\ invocations' = MapSet(invocations, NextInvocation,
                           [op |-> "startCall", pc |-> "getUserMedia", offer |-> FALSE])
  /\ res' = CallRes("startCall", "none")

\* answerCall up to navigator.mediaDevices.getUserMedia, on the manager m
AnswerCallOn(m, callData, op) ==
  /\ NextInvocation <= MaxInvocations
  /\ manager' = setState([m EXCEPT !.matchId = callData.matchId,
                                   !.isInitiator = FALSE],
                         "connected")
  /\ invocations' = MapSet(invocations, NextInvocation,
                           [op |-> "answerCall", pc |-> "getUserMedia",
                            offer |-> callData.offer])
  /\ res' = CallRes(op, "none")

AnswerCall(callData) == AnswerCallOn(manager, callData, "answerCall")

\* the catch of startCall and answerCall
CallFailed(i) ==
  /\ manager' = setState(manager, "ended")
  /\ invocations' = [invocations EXCEPT ![i].pc = "done"]
  /\ res' = CallRes("failed", "none")

\* getUserMedia settles: the stream is kept, the peer connection created and
\* the next call on it made; or the catch
UserMediaSettles(i, resolved) ==
  /\ i \in DOMAIN invocations
  /\ invocations[i].pc = "getUserMedia"
  /\ IF resolved
     THEN /\ manager' = createPeerConnection([manager EXCEPT !.localStream = Reference])
          /\ invocations' =
               [invocations EXCEPT
                  ![i].pc = IF invocations[i].op = "startCall" THEN "createOffer"
                            ELSE IF invocations[i].offer THEN "setRemoteDescription"
                            ELSE "done"]
          /\ res' = CallRes("getUserMedia", "none")
     ELSE CallFailed(i)

\* the call on the peer connection that follows the one awaited
NextAwait(pc) ==
  CASE pc = "createOffer" -> "setLocalDescription"
    [] pc = "setRemoteDescription" -> "createAnswer"
    [] pc = "createAnswer" -> "setLocalDescription"
    [] pc = "setLocalDescription" -> "done"

\* a call on the peer connection awaited by startCall or answerCall settles:
\* the next call on this.peerConnection! follows (a TypeError when it is
\* null), or the offer or answer is sent; or the catch
PeerCallSettles(i, resolved) ==
  /\ i \in DOMAIN invocations
  /\ invocations[i].op \in {"startCall", "answerCall"}
  /\ invocations[i].pc \in {"createOffer", "setRemoteDescription", "createAnswer",
                            "setLocalDescription"}
  /\ LET next == NextAwait(invocations[i].pc)
     IN  IF resolved /\ next = "done"
         THEN /\ invocations' = [invocations EXCEPT ![i].pc = "done"]
              /\ res' = CallRes("sent", IF invocations[i].op = "startCall"
                                        THEN "offer" ELSE "answer")
              /\ UNCHANGED manager
         ELSE IF resolved /\ manager.peerConnection # Null
         THEN /\ invocations' = [invocations EXCEPT ![i].pc = next]
              /\ res' = CallRes(next, "none")
              /\ UNCHANGED manager
         ELSE CallFailed(i)

\* handleSignalingMessage up to its first await on the browser
HandleSignalingMessage(data) ==
  IF manager.peerConnection = Null /\ data.type # "offer"
  THEN /\ res' = CallRes("ignored", "none")
       /\ UNCHANGED managerVars
  ELSE CASE data.type = "offer" ->
              AnswerCallOn(setState(manager, "receiving"), data, "handleOffer")
         [] data.type = "answer" ->
              /\ IF data.answer
                 THEN /\ NextInvocation <= MaxInvocations
                      /\ invocations' = MapSet(invocations, NextInvocation,
                                               [op |-> "handleAnswer",
                                                pc |-> "setRemoteDescription",
                                                offer |-> FALSE])
                 ELSE UNCHANGED invocations
              /\ res' = CallRes("handleAnswer", "none")
              /\ UNCHANGED manager
         [] data.type = "candidate" ->
              \* addIceCandidate is awaited; nothing follows it
              /\ res' = CallRes("handleCandidate", "none")
              /\ UNCHANGED managerVars
         [] data.type = "hangup" ->
              /\ manager' = setState(cleanup(manager), "ended")
              /\ res' = CallRes("handleHangup", "none")
              /\ UNCHANGED invocations

\* setRemoteDescription(data.answer) settles: setState('connected'), or the
\* catch, which reports the error only
AnswerSettles(i, resolved) ==
  /\ i \in DOMAIN invocations
  /\ invocations[i].op = "handleAnswer" /\ invocations[i].pc = "setRemoteDescription"
  /\ invocations' = [invocations EXCEPT ![i].pc = "done"]
  /\ manager' = IF resolved THEN setState(manager, "connected") ELSE manager
  /\ res' = CallRes("answerSet", "none")

RejectCall ==
  /\ manager' = setState(manager, "ended")
  /\ res' = CallRes("rejectCall", "none")
  /\ UNCHANGED invocations

EndCall ==
  /\ manager' = setState(cleanup(manager), "ended")
  /\ res' = CallRes("endCall", IF manager.matchId # Null THEN "hangup" ELSE "none")
  /\ UNCHANGED invocations

\* peerConnection.onconnectionstatechange, the connection being in
\* connectionState
OnConnectionStateChange(connectionState) ==
  /\ manager.peerConnection # Null
  /\ manager' = IF connectionState = "connected" THEN setState(manager, "connected")
                ELSE IF connectionState \in {"disconnected", "failed", "closed"}
                THEN setState(manager, "ended")
                ELSE manager
  /\ res' = CallRes("connectionState", "none")
  /\ UNCHANGED invocations

\* peerConnection.oniceconnectionstatechange
OnIceConnectionStateChange(iceConnectionState) ==
  /\ manager.peerConnection # Null
  /\ manager' = IF iceConnectionState = "failed" THEN setState(manager, "ended")
                ELSE manager
  /\ res' = CallRes("iceConnectionState", "none")
  /\ UNCHANGED invocations

\* peerConnection.ontrack with a stream
OnTrack ==
  /\ manager.peerConnection # Null
  /\ manager' = [manager EXCEPT !.remoteStream = Reference]
  /\ res' = CallRes("track", "none")
  /\ UNCHANGED invocations

StartCallStep == (\E matchId \in MatchIds : StartCall(matchId)) /\ UNCHANGED callFrame

AnswerCallStep ==
  /\ \E matchId \in MatchIds, offer \in BOOLEAN :
        AnswerCall([type |-> "offer", matchId |-> matchId, offer |-> offer])
  /\ UNCHANGED callFrame

SignalingMessageStep ==
  /\ \E type \in SignalTypes, matchId \in MatchIds, payload \in BOOLEAN :
        HandleSignalingMessage([type |-> type, matchId |-> matchId,
                                offer |-> payload, answer |-> payload])
  /\ UNCHANGED callFrame

SettleStepOfCall ==
  /\ \E i \in 1..MaxInvocations, resolved \in BOOLEAN :
        \/ UserMediaSettles(i, resolved)
        \/ PeerCallSettles(i, resolved)
        \/ AnswerSettles(i, resolved)
  /\ UNCHANGED callFrame

RejectCallStep == RejectCall /\ UNCHANGED callFrame

EndCallStep == EndCall /\ UNCHANGED callFrame

ConnectionEventStep ==
  /\ \/ \E connectionState \in {"connecting", "connected", "disconnected", "failed"} :
           OnConnectionStateChange(connectionState)
     \/ \E iceConnectionState \in {"connected", "failed"} :
           OnIceConnectionStateChange(iceConnectionState)
     \/ OnTrack
  /\ UNCHANGED callFrame

NextCall ==
  \/ StartCallStep
  \/ AnswerCallStep
  \/ SignalingMessageStep
  \/ SettleStepOfCall
  \/ RejectCallStep
  \/ EndCallStep
  \/ ConnectionEventStep

SpecCall == Init /\ [][NextCall]_vars

(***************************************************************************)
(* Properties of the WebRTCManager (SpecCall)                              *)
(***************************************************************************)
\* C30: in WebRTCManager, after any sequence of startCall, answerCall,
\* incoming signaling messages (offer, answer, candidate, hangup),
\* connection-state events, rejectCall and endCall, including endCall
\* arriving while startCall is still waiting for the camera, callState =
\* 'ended' implies that no peer connection and no local media stream are held
\* (peerConnection = null and localStream = null).
C30_EndedHoldsNothing ==
  manager.callState = "ended"
     => manager.peerConnection = Null /\ manager.localStream = Null

====
